---- MODULE Spec2Model ----
(***************************************************************************)
(* Undo/redo transaction engine of Worldsmith (src/historyManager.js) and  *)
(* the call sites that drive it (src/worldsmith.js).                       *)
(*                                                                         *)
(* The program state is one record per operation argument: every method of *)
(* HistoryManager is an operator from a state record to the state record   *)
(* after the call, so that a method calling another method is operator     *)
(* composition, exactly as in the source.  The VARIABLES hold the fields   *)
(* of that record between two calls.                                       *)
(***************************************************************************)
EXTENDS Integers, Sequences, FiniteSets, TLC

(* ------------------------------ bounds --------------------------------- *)
\* changes recorded in one run (each record call of a caller appends one)
MaxRecords == 2
\* changes recorded in one run of the specifications that overflow the history
MaxCommits == 3
\* this.maxHistorySize (100 in the source), scaled so that eviction is reached
maxHistorySize == 2

(* ------------------------------ values --------------------------------- *)
\* object references of the JavaScript heap; NoRef is null/undefined
MaxRefs == 2 * (MaxRecords + MaxCommits)
Refs == 1..MaxRefs
NoRef == 0
\* 'obj_N' is modelled by N; NoId is an absent userData.historyId
NoId == 0

\* userData.shapeType / assetType / description: what the factory rebuilds
Kinds == {"shape", "asset"}
\* material.color.getHex(); NoColor is "no material" (a THREE.Group)
Colors == {1, 2}
NoColor == 0
\* what the Object Factory does when restoreObjectFromSnapshot calls it: it makes an object
\* (a Mesh of a random colour, or a Group), returns nothing, or throws
Nothing == -1
Throws == -2
FactoryOutcomes == Colors \cup {Nothing, Throws}
\* position / rotation / scale triples a caller moves an object to
Xforms == { [pos |-> 0, rot |-> 0, scale |-> 1], [pos |-> 1, rot |-> 1, scale |-> 2] }
SpawnXform == [pos |-> 0, rot |-> 0, scale |-> 1]
NoXform == [pos |-> -1, rot |-> -1, scale |-> -1]
Labels == {"Edit"}
UnknownAction == "Unknown Action"
Keys == {"color", "visible"}

\* a property key setObjectProperty has no branch for
OtherKeys == {"castShadow"}

\* a scene object: userData.historyId, the userData descriptor (kind), userData.name,
\* transform, visibility, the material (absent on a THREE.Group) with its colour, and
\* castShadow
NoObj == [historyId |-> NoId, kind |-> "none", name |-> 0, position |-> 0, rotation |-> 0,
          scale |-> 0, visible |-> FALSE, material |-> FALSE, color |-> NoColor,
          castShadow |-> FALSE]
\* a snapshot: id, userData (kind, name), transform, visible, material (hasMaterial, color)
NoSnap == [id |-> NoId, kind |-> "none", name |-> 0, position |-> 0, rotation |-> 0,
           scale |-> 0, visible |-> FALSE, hasMaterial |-> FALSE, color |-> NoColor]

(* ----------------------------- variables ------------------------------- *)
VARIABLES
  undoStack, redoStack, currentTransaction,   \* HistoryManager stacks, open transaction (<<>> is null)
  isExecutingUndo, isExecutingRedo, isRecording,
  trackedObjects, nextObjectId,               \* id -> object reference, id counter
  recorded,                                   \* changes appended by addChange so far
  objects, createdObjects,                    \* heap of scene objects, Worldsmith.createdObjects
  selectedObject, isDragging,                 \* Worldsmith selection and drag state
  saved,                                      \* the record serializeHistory returned last (<<>>: none)
  worldFile,                                  \* the world file saveWorld wrote last (<<>>: none)
  ret, walkLog,                               \* undo/redo return value and handler calls of the last call
  thrown,                                     \* the last call ended by an exception that escaped it
  heapFull,                                   \* the heap bound MaxRefs was hit
  lastOp,                                     \* the call made last and its arguments
  limit,                                      \* changes (hence objects and ids) this run may record
  watch,                                      \* the scenario this run's observer follows
  scenario                                    \* the observer's record of how far the scenario has got

progVars == <<undoStack, redoStack, currentTransaction, isExecutingUndo, isExecutingRedo,
              isRecording, trackedObjects, nextObjectId, recorded, objects,
              createdObjects, selectedObject, isDragging, saved, worldFile, ret, walkLog,
              thrown, heapFull>>
vars == <<progVars, lastOp, limit, watch, scenario>>

State == [undoStack |-> undoStack, redoStack |-> redoStack,
          currentTransaction |-> currentTransaction,
          isExecutingUndo |-> isExecutingUndo, isExecutingRedo |-> isExecutingRedo,
          isRecording |-> isRecording,
          trackedObjects |-> trackedObjects, nextObjectId |-> nextObjectId,
          recorded |-> recorded, objects |-> objects, createdObjects |-> createdObjects,
          selectedObject |-> selectedObject, isDragging |-> isDragging,
          saved |-> saved, worldFile |-> worldFile, ret |-> ret, walkLog |-> walkLog,
          thrown |-> thrown, heapFull |-> heapFull]

\* new HistoryManager(worldsmith) in an empty world
InitState == [undoStack |-> <<>>, redoStack |-> <<>>, currentTransaction |-> <<>>,
              isExecutingUndo |-> FALSE, isExecutingRedo |-> FALSE,
              isRecording |-> TRUE,
              trackedObjects |-> [i \in {} |-> NoRef], nextObjectId |-> 1,
              recorded |-> 0, objects |-> [r \in Refs |-> NoObj], createdObjects |-> <<>>,
              selectedObject |-> NoRef, isDragging |-> FALSE,
              saved |-> <<>>, worldFile |-> <<>>, ret |-> TRUE, walkLog |-> <<>>,
              thrown |-> FALSE, heapFull |-> FALSE]

(* ------------------------------ helpers -------------------------------- *)
Range(f) == {f[i] : i \in DOMAIN f}
Front(q) == SubSeq(q, 1, Len(q) - 1)
Last(q) == q[Len(q)]
Walking(s) == s.isExecutingUndo \/ s.isExecutingRedo

\* createdObjects.indexOf(object), 0 for -1
IndexOf(q, r) == IF \E i \in 1..Len(q) : q[i] = r
                 THEN CHOOSE i \in 1..Len(q) : q[i] = r /\ \A j \in 1..(i - 1) : q[j] # r
                 ELSE 0
\* createdObjects.splice(index, 1) when index > -1
Splice(q, r) == LET i == IndexOf(q, r)
                IN IF i = 0 THEN q ELSE SubSeq(q, 1, i - 1) \o SubSeq(q, i + 1, Len(q))

\* references the program still holds
Reachable(s) == (Range(s.createdObjects) \cup Range(s.trackedObjects)
                 \cup {s.selectedObject}) \ {NoRef}
\* the reference a `new THREE.Mesh / Group` gets: any unused one (NoRef: heap bound hit)
Alloc(s) == IF \E r \in Refs : r \notin Reachable(s)
            THEN CHOOSE r \in Refs : r \notin Reachable(s) /\ \A q \in Refs : q < r => q \in Reachable(s)
            ELSE NoRef
\* References are opaque: between two calls the heap is kept in one canonical numbering
\* (live objects in createdObjects order, then objects only the tracking map holds, then a
\* selected object nothing else holds), and objects no reference leads to are collected.
Rank(s, r) ==
  LET live == s.createdObjects
      dead == Range(s.trackedObjects) \ (Range(live) \cup {NoRef})
      Key(q) == CHOOSE i \in DOMAIN s.trackedObjects :
                  s.trackedObjects[i] = q /\ \A j \in DOMAIN s.trackedObjects :
                                                 s.trackedObjects[j] = q => i <= j
  IN IF r = NoRef THEN NoRef
     ELSE IF r \in Range(live) THEN IndexOf(live, r)
     ELSE IF r \in dead THEN Len(live) + 1 + Cardinality({q \in dead : Key(q) < Key(r)})
     ELSE Len(live) + Cardinality(dead) + 1
Collect(s) ==
  [s EXCEPT !.objects = [k \in Refs |->
                           IF \E r \in Reachable(s) : Rank(s, r) = k
                           THEN s.objects[CHOOSE r \in Reachable(s) : Rank(s, r) = k]
                           ELSE NoObj],
            !.createdObjects = [i \in DOMAIN @ |-> Rank(s, @[i])],
            !.trackedObjects = [i \in DOMAIN @ |-> Rank(s, @[i])],
            !.selectedObject = Rank(s, @)]

(* ------------------------ Object Identity Registry --------------------- *)
\* generateObjectId + getObjectId: the state after the call (id minted if absent, object tracked)
getObjectId(s, r) ==
  LET minted == s.objects[r].historyId = NoId
      id == IF minted THEN s.nextObjectId ELSE s.objects[r].historyId
  IN [s EXCEPT !.nextObjectId = IF minted THEN @ + 1 ELSE @,
               !.objects[r].historyId = id,
               !.trackedObjects = [i \in DOMAIN @ \cup {id} |-> IF i = id THEN r ELSE @[i]]]
\* the id getObjectId returns
ObjectId(s, r) == getObjectId(s, r).objects[r].historyId
\* this.trackedObjects.get(id), NoRef for undefined
Tracked(s, id) == IF id \in DOMAIN s.trackedObjects THEN s.trackedObjects[id] ELSE NoRef

(* ----------------------------- Snapshot Codec --------------------------- *)
\* the record createObjectSnapshot returns (read after getObjectId has run)
SnapshotOf(s, r) ==
  LET o == getObjectId(s, r).objects[r]
  IN [id |-> o.historyId, kind |-> o.kind, name |-> o.name,
      position |-> o.position, rotation |-> o.rotation, scale |-> o.scale,
      visible |-> o.visible, hasMaterial |-> o.material,
      color |-> IF o.material THEN o.color ELSE NoColor]
\* the state createObjectSnapshot leaves: its only side effect is getObjectId
createObjectSnapshot(s, r) == getObjectId(s, r)

\* objectCreator.createShape / createAsset / createFromDescription as restoreObjectFromSnapshot
\* dispatches on them: a Mesh with a random colour rc, or a Group without material
FactoryObject(kind, rc) ==
  [historyId |-> NoId, kind |-> IF kind \in {"asset", "complex"} THEN kind ELSE "shape",
   name |-> 0, position |-> 0, rotation |-> 0, scale |-> 1, visible |-> TRUE,
   material |-> kind \notin {"asset", "complex"},
   color |-> IF kind \in {"asset", "complex"} THEN NoColor ELSE rc,
   castShadow |-> kind \notin {"asset", "complex"}]

\* restoreObjectFromSnapshot without its "Restore material properties" block
restoreWithFactoryColor(s, snapshot, rc) ==
  LET r == Alloc(s)
      made == FactoryObject(snapshot.kind, rc)
      restored == [made EXCEPT !.position = snapshot.position,
                               !.rotation = snapshot.rotation,
                               !.scale = snapshot.scale,
                               !.visible = snapshot.visible,
                               !.kind = snapshot.kind,
                               !.name = snapshot.name,
                               !.historyId = snapshot.id]
  IN IF r = NoRef THEN [s EXCEPT !.heapFull = TRUE]
     ELSE [s EXCEPT !.objects[r] = restored,
                    !.trackedObjects = [i \in DOMAIN @ \cup {snapshot.id} |->
                                          IF i = snapshot.id THEN r ELSE @[i]]]

\* restoreObjectFromSnapshot without `this.trackedObjects.set(snapshot.id, restoredObject)`
restoreUntracked(s, snapshot, rc) ==
  LET r == Alloc(s)
      made == FactoryObject(snapshot.kind, rc)
      restored == [made EXCEPT !.position = snapshot.position,
                               !.rotation = snapshot.rotation,
                               !.scale = snapshot.scale,
                               !.visible = snapshot.visible,
                               !.color = IF snapshot.hasMaterial /\ made.material
                                            /\ snapshot.color # NoColor
                                         THEN snapshot.color ELSE @,
                               !.kind = snapshot.kind,
                               !.name = snapshot.name,
                               !.historyId = snapshot.id]
  IN IF r = NoRef THEN [s EXCEPT !.heapFull = TRUE]
     ELSE [s EXCEPT !.objects[r] = restored]

\* restoreObjectFromSnapshot without `if (!restoredObject) return null`: setting the position
\* of no object is a TypeError
restoreUnchecked(s, snapshot, rc) ==
  LET r == Alloc(s)
      made == FactoryObject(snapshot.kind, rc)
      restored == [made EXCEPT !.position = snapshot.position,
                               !.rotation = snapshot.rotation,
                               !.scale = snapshot.scale,
                               !.visible = snapshot.visible,
                               !.color = IF snapshot.hasMaterial /\ made.material
                                            /\ snapshot.color # NoColor
                                         THEN snapshot.color ELSE @,
                               !.kind = snapshot.kind,
                               !.name = snapshot.name,
                               !.historyId = snapshot.id]
  IN IF rc \in {Throws, Nothing} THEN [s EXCEPT !.thrown = TRUE]
     ELSE IF r = NoRef THEN [s EXCEPT !.heapFull = TRUE]
     ELSE [s EXCEPT !.objects[r] = restored,
                    !.trackedObjects = [i \in DOMAIN @ \cup {snapshot.id} |->
                                          IF i = snapshot.id THEN r ELSE @[i]]]

\* restoreObjectFromSnapshot: the state after it; the restored object is at Alloc(s).  When
\* the factory returns nothing the method returns null; what the factory throws it lets through
restoreObjectFromSnapshot(s, snapshot, rc) ==
  LET r == Alloc(s)
      made == FactoryObject(snapshot.kind, rc)
      restored == [made EXCEPT !.position = snapshot.position,
                               !.rotation = snapshot.rotation,
                               !.scale = snapshot.scale,
                               !.visible = snapshot.visible,
                               !.color = IF snapshot.hasMaterial /\ made.material
                                            /\ snapshot.color # NoColor
                                         THEN snapshot.color ELSE @,
                               !.kind = snapshot.kind,
                               !.name = snapshot.name,
                               !.historyId = snapshot.id]
  IN IF rc = Throws THEN [s EXCEPT !.thrown = TRUE]
     ELSE IF rc = Nothing THEN s
     ELSE IF r = NoRef THEN [s EXCEPT !.heapFull = TRUE]
     ELSE [s EXCEPT !.objects[r] = restored,
                    !.trackedObjects = [i \in DOMAIN @ \cup {snapshot.id} |->
                                          IF i = snapshot.id THEN r ELSE @[i]]]

(* ------------------------- Change Log: recording ----------------------- *)
\* The stacks are arrays that push, pop and shift change in place: the record serializeHistory
\* returned holds these very arrays (undoLive, redoLive) until the engine takes new ones, and
\* changes with them.
SetUndo(s, q) ==
  [s EXCEPT !.undoStack = q,
            !.saved = IF @ # <<>> /\ @[1].undoLive THEN <<[@[1] EXCEPT !.undoStack = q]>> ELSE @]
SetRedo(s, q) ==
  [s EXCEPT !.redoStack = q,
            !.saved = IF @ # <<>> /\ @[1].redoLive THEN <<[@[1] EXCEPT !.redoStack = q]>> ELSE @]
\* this.undoStack = [] / this.redoStack = []: a new array, the old one stays with its holders
NewUndo(s) ==
  [s EXCEPT !.undoStack = <<>>,
            !.saved = IF @ # <<>> THEN <<[@[1] EXCEPT !.undoLive = FALSE]>> ELSE @]
NewRedo(s) ==
  [s EXCEPT !.redoStack = <<>>,
            !.saved = IF @ # <<>> THEN <<[@[1] EXCEPT !.redoLive = FALSE]>> ELSE @]
\* if (this.undoStack.length > this.maxHistorySize) this.undoStack.shift()
Limited(s) == IF Len(s.undoStack) > maxHistorySize THEN SetUndo(s, Tail(s.undoStack)) ELSE s

Change(type, id, snapshot, key, prev, next, pprev, pnext) ==
  [type |-> type, id |-> id, snapshot |-> snapshot, key |-> key,
   prev |-> prev, next |-> next, pprev |-> pprev, pnext |-> pnext]

\* timestamp: Date.now() is a clock that has advanced whenever a change has been recorded, so
\* that two transactions holding changes never carry the same timestamp (nor the same id)
\* startTransaction that leaves a transaction holding changes open
startTransactionKeepsOpen(s, label) ==
  IF s.isExecutingUndo \/ s.isExecutingRedo THEN s
  ELSE IF s.currentTransaction # <<>> /\ s.currentTransaction[1].changes # <<>> THEN s
  ELSE [s EXCEPT !.currentTransaction = <<[timestamp |-> s.recorded, label |-> label,
                                           changes |-> <<>>]>>]

startTransaction(s, label) ==
  IF s.isExecutingUndo \/ s.isExecutingRedo THEN s
  ELSE [s EXCEPT !.currentTransaction = <<[timestamp |-> s.recorded, label |-> label,
                                           changes |-> <<>>]>>]

\* addChange without the isExecutingUndo / isExecutingRedo test
addChangeDuringWalk(s, change) ==
  IF ~s.isRecording THEN s
  ELSE LET s1 == IF s.currentTransaction = <<>>
                 THEN [s EXCEPT !.currentTransaction = <<[timestamp |-> s.recorded,
                                                          label |-> UnknownAction,
                                                          changes |-> <<>>]>>]
                 ELSE s
       IN [s1 EXCEPT !.currentTransaction[1].changes = Append(@, change),
                     !.recorded = @ + 1]

\* addChange that drops the change when no transaction is open
addChangeNeedsOpen(s, change) ==
  IF s.isExecutingUndo \/ s.isExecutingRedo \/ ~s.isRecording THEN s
  ELSE IF s.currentTransaction = <<>> THEN s
  ELSE [s EXCEPT !.currentTransaction[1].changes = Append(@, change),
                 !.recorded = @ + 1]

addChange(s, change) ==
  IF s.isExecutingUndo \/ s.isExecutingRedo \/ ~s.isRecording THEN s
  ELSE LET s1 == IF s.currentTransaction = <<>> THEN startTransaction(s, UnknownAction) ELSE s
       IN [s1 EXCEPT !.currentTransaction[1].changes = Append(@, change),
                     !.recorded = @ + 1]

\* commitTransaction without `this.redoStack = []`
commitTransactionKeepsRedo(s) ==
  IF s.currentTransaction = <<>> \/ Len(s.currentTransaction[1].changes) = 0
  THEN [s EXCEPT !.currentTransaction = <<>>]
  ELSE [Limited(SetUndo(s, Append(s.undoStack, s.currentTransaction[1])))
          EXCEPT !.currentTransaction = <<>>]

\* commitTransaction without the `changes.length === 0` test
commitTransactionPushesEmpty(s) ==
  IF s.currentTransaction = <<>>
  THEN s
  ELSE [Limited(NewRedo(SetUndo(s, Append(s.undoStack, s.currentTransaction[1]))))
          EXCEPT !.currentTransaction = <<>>]

\* commitTransaction limiting the size before it pushes: the entry under the new one goes
commitTransactionEvictsNewest(s) ==
  IF s.currentTransaction = <<>> \/ Len(s.currentTransaction[1].changes) = 0
  THEN [s EXCEPT !.currentTransaction = <<>>]
  ELSE [NewRedo(SetUndo(s, Append(IF Len(s.undoStack) + 1 > maxHistorySize
                                  THEN Front(s.undoStack) ELSE s.undoStack,
                                  s.currentTransaction[1])))
          EXCEPT !.currentTransaction = <<>>]

\* commitTransaction appending the open changes to the newest committed transaction
commitTransactionMerges(s) ==
  IF s.currentTransaction = <<>> \/ Len(s.currentTransaction[1].changes) = 0
  THEN [s EXCEPT !.currentTransaction = <<>>]
  ELSE IF s.undoStack = <<>>
  THEN [Limited(NewRedo(SetUndo(s, Append(s.undoStack, s.currentTransaction[1]))))
          EXCEPT !.currentTransaction = <<>>]
  ELSE [NewRedo(SetUndo(s, [s.undoStack EXCEPT ![Len(s.undoStack)].changes =
                                                  @ \o s.currentTransaction[1].changes]))
          EXCEPT !.currentTransaction = <<>>]

commitTransaction(s) ==
  IF s.currentTransaction = <<>> \/ Len(s.currentTransaction[1].changes) = 0
  THEN [s EXCEPT !.currentTransaction = <<>>]
  ELSE [Limited(NewRedo(SetUndo(s, Append(s.undoStack, s.currentTransaction[1]))))
          EXCEPT !.currentTransaction = <<>>]

recordObjectCreation(s, r) ==
  IF r = NoRef THEN s
  ELSE LET snapshot == SnapshotOf(s, r)
       IN addChange(createObjectSnapshot(s, r),
                    Change("create", snapshot.id, snapshot, "", NoXform, NoXform, 0, 0))

\* snapshot = NoSnap is the default parameter null
recordObjectDeletion(s, r, snapshot) ==
  IF r = NoRef THEN s
  ELSE LET snap == IF snapshot = NoSnap THEN SnapshotOf(s, r) ELSE snapshot
           s1 == IF snapshot = NoSnap THEN createObjectSnapshot(s, r) ELSE s
       IN addChange(s1, Change("delete", snap.id, snap, "", NoXform, NoXform, 0, 0))

recordTransformChange(s, r, prevTransform, nextTransform) ==
  addChange(getObjectId(s, r),
            Change("xform", ObjectId(s, r), NoSnap, "", prevTransform, nextTransform, 0, 0))

recordPropertyChange(s, r, key, prevValue, nextValue) ==
  addChange(getObjectId(s, r),
            Change("prop", ObjectId(s, r), NoSnap, key, NoXform, NoXform, prevValue, nextValue))

\* the coalescing timer's callback is empty and nothing reads coalescingTimer but the
\* clearInterval calls, so the timer is no part of the state
\* startCoalescing without its commitTransaction() call
startCoalescingWithoutCommit(s, label) == startTransaction(s, label)

startCoalescing(s, label) ==
  startTransaction(IF s.currentTransaction # <<>> THEN commitTransaction(s) ELSE s, label)

\* stopCoalescing that clears the timer and commits nothing
stopCoalescingWithoutCommit(s) == s

stopCoalescing(s) == commitTransaction(s)

\* the objectCreated / objectDeleted listeners of setupEventListeners
onObjectCreated(s, r) ==
  IF s.isRecording /\ ~s.isExecutingUndo /\ ~s.isExecutingRedo /\ r # NoRef
  THEN recordObjectCreation(s, r) ELSE s

onObjectDeleted(s, r, snapshot) ==
  IF s.isRecording /\ ~s.isExecutingUndo /\ ~s.isExecutingRedo /\ r # NoRef
  THEN recordObjectDeletion(s, r, snapshot) ELSE s

(* ----------------------- Change Log: apply / reverse ------------------- *)
\* scene.remove + createdObjects.splice + trackedObjects.delete of reverseCreate / applyDelete
RemoveTracked(s, id) ==
  LET object == Tracked(s, id)
  IN IF object = NoRef THEN s
     ELSE [s EXCEPT !.createdObjects = Splice(@, object),
                    !.trackedObjects = [i \in DOMAIN @ \ {id} |-> @[i]]]

\* if (restoredObject) { scene.add; createdObjects.push } of applyCreate / reverseDelete
AddRestored(s, snapshot, rc) ==
  LET restoredObject == Alloc(s)
  IN IF restoredObject = NoRef \/ rc \in {Nothing, Throws}
     THEN restoreObjectFromSnapshot(s, snapshot, rc)
     ELSE [restoreObjectFromSnapshot(s, snapshot, rc) EXCEPT
             !.createdObjects = Append(@, restoredObject)]

reverseCreate(s, change) == RemoveTracked(s, change.id)
applyCreate(s, change, rc) == AddRestored(s, change.snapshot, rc)
\* reverseDelete without scene.add and createdObjects.push
reverseDeleteOffScene(s, change, rc) == restoreObjectFromSnapshot(s, change.snapshot, rc)
reverseDelete(s, change, rc) == AddRestored(s, change.snapshot, rc)
applyDelete(s, change) == RemoveTracked(s, change.id)

SetTransform(s, id, xf) ==
  LET object == Tracked(s, id)
  IN IF object # NoRef /\ xf # NoXform
     THEN [s EXCEPT !.objects[object].position = xf.pos,
                    !.objects[object].rotation = xf.rot,
                    !.objects[object].scale = xf.scale]
     ELSE s
\* reverseTransform without the `object &&` test: a miss is a TypeError
reverseTransformUnguarded(s, change) ==
  IF Tracked(s, change.id) = NoRef THEN [s EXCEPT !.thrown = TRUE]
  ELSE SetTransform(s, change.id, change.prev)
reverseTransform(s, change) == SetTransform(s, change.id, change.prev)
applyTransform(s, change) == SetTransform(s, change.id, change.next)

\* property values are numbers: a colour's hex value, 1 / 0 for visible, a name's index
setObjectProperty(s, object, key, value) ==
  IF key = "color" /\ s.objects[object].material
  THEN [s EXCEPT !.objects[object].color = value]
  ELSE IF key = "visible" THEN [s EXCEPT !.objects[object].visible = (value = 1)]
  ELSE IF key = "name" THEN [s EXCEPT !.objects[object].name = value]
  ELSE s

reverseProperty(s, change) ==
  LET object == Tracked(s, change.id)
  IN IF object # NoRef THEN setObjectProperty(s, object, change.key, change.pprev) ELSE s
applyProperty(s, change) ==
  LET object == Tracked(s, change.id)
  IN IF object # NoRef THEN setObjectProperty(s, object, change.key, change.pnext) ELSE s

Logged(s, handler, change) == [s EXCEPT !.walkLog = Append(@, [handler |-> handler, change |-> change])]

reverseChange(s, change, rc) ==
  LET s1 == Logged(s, "reverse", change)
  IN CASE change.type = "create" -> reverseCreate(s1, change)
       [] change.type = "delete" -> reverseDelete(s1, change, rc)
       [] change.type = "xform" -> reverseTransform(s1, change)
       [] change.type = "prop" -> reverseProperty(s1, change)
       [] OTHER -> s1

applyChange(s, change, rc) ==
  LET s1 == Logged(s, "apply", change)
  IN CASE change.type = "create" -> applyCreate(s1, change, rc)
       [] change.type = "delete" -> applyDelete(s1, change)
       [] change.type = "xform" -> applyTransform(s1, change)
       [] change.type = "prop" -> applyProperty(s1, change)
       [] OTHER -> s1

(* --------------------------- undo / redo walks -------------------------- *)
\* calls that a handler's side effects (a collaborator's notification) make back into the
\* engine while the walk runs
Callbacks == {"none", "objectCreated", "objectDeleted", "recordObjectCreation",
              "recordObjectDeletion", "recordTransformChange", "recordPropertyChange",
              "startTransaction", "undo", "redo"}
CallbackLabel == "Reentrant"

\* the object a handler touched: the one now tracked under the change's id, else the one removed
StepObject(before, after, change) ==
  IF Tracked(after, change.id) # NoRef THEN Tracked(after, change.id)
  ELSE Tracked(before, change.id)

RECURSIVE undo(_, _, _)
RECURSIVE redo(_, _, _)

Reentrant(s, cb, r, rc) ==
  CASE cb = "objectCreated" -> onObjectCreated(s, r)
    [] cb = "objectDeleted" -> onObjectDeleted(s, r, NoSnap)
    [] cb = "recordObjectCreation" -> recordObjectCreation(s, r)
    [] cb = "recordObjectDeletion" -> recordObjectDeletion(s, r, NoSnap)
    [] cb = "recordTransformChange" /\ r # NoRef ->
         recordTransformChange(s, r, SpawnXform, SpawnXform)
    [] cb = "recordPropertyChange" /\ r # NoRef ->
         recordPropertyChange(s, r, "visible", 1, 1)
    [] cb = "startTransaction" -> startTransaction(s, CallbackLabel)
    [] cb = "undo" -> [undo(s, "none", rc) EXCEPT !.ret = s.ret]
    [] cb = "redo" -> [redo(s, "none", rc) EXCEPT !.ret = s.ret]
    [] OTHER -> s

\* for (let i = changes.length - 1; i >= 0; i--) this.reverseChange(changes[i]); an
\* exception a handler throws ends the loop
RECURSIVE ReverseWalk(_, _, _, _, _)
ReverseWalk(s, changes, i, cb, rc) ==
  IF i = 0 THEN s
  ELSE LET after == reverseChange(s, changes[i], rc)
       IN IF after.thrown THEN after
          ELSE
          ReverseWalk(Reentrant(after, cb, StepObject(s, after, changes[i]), rc),
                      changes, i - 1, cb, rc)

\* for (const change of transaction.changes) this.applyChange(change)
RECURSIVE ForwardWalk(_, _, _, _, _)
ForwardWalk(s, changes, i, cb, rc) ==
  IF i > Len(changes) THEN s
  ELSE LET after == applyChange(s, changes[i], rc)
       IN IF after.thrown THEN after
          ELSE
          ForwardWalk(Reentrant(after, cb, StepObject(s, after, changes[i]), rc),
                      changes, i + 1, cb, rc)

\* undo() without the isExecutingUndo / isExecutingRedo test of its guard
undoDuringWalk(s, cb, rc) ==
  IF Len(s.undoStack) = 0
  THEN [s EXCEPT !.ret = FALSE]
  ELSE LET transaction == Last(s.undoStack)
           popped == SetUndo([s EXCEPT !.isExecutingUndo = TRUE], Front(s.undoStack))
           walked == ReverseWalk(popped, transaction.changes, Len(transaction.changes), cb, rc)
       IN IF walked.thrown THEN [walked EXCEPT !.ret = FALSE, !.isExecutingUndo = FALSE]
          ELSE [SetRedo(walked, Append(walked.redoStack, transaction)) EXCEPT
                  !.ret = TRUE,
                  !.isExecutingUndo = FALSE]

\* undo() without its finally block: an exception of the walk leaves isExecutingUndo set
undoWithoutFinally(s, cb, rc) ==
  IF Len(s.undoStack) = 0 \/ s.isExecutingUndo \/ s.isExecutingRedo
  THEN [s EXCEPT !.ret = FALSE]
  ELSE LET transaction == Last(s.undoStack)
           popped == SetUndo([s EXCEPT !.isExecutingUndo = TRUE], Front(s.undoStack))
           walked == ReverseWalk(popped, transaction.changes, Len(transaction.changes), cb, rc)
       IN IF walked.thrown THEN [walked EXCEPT !.ret = FALSE]
          ELSE [SetRedo(walked, Append(walked.redoStack, transaction)) EXCEPT
                  !.ret = TRUE,
                  !.isExecutingUndo = FALSE]

\* try { pop; walk; push; return true } finally { flag = false }: there is no catch, so an
\* exception of the walk leaves the call after the finally block (thrown; ret is no value)
undo(s, cb, rc) ==
  IF Len(s.undoStack) = 0 \/ s.isExecutingUndo \/ s.isExecutingRedo
  THEN [s EXCEPT !.ret = FALSE]
  ELSE LET transaction == Last(s.undoStack)
           popped == SetUndo([s EXCEPT !.isExecutingUndo = TRUE], Front(s.undoStack))
           walked == ReverseWalk(popped, transaction.changes, Len(transaction.changes), cb, rc)
       IN IF walked.thrown THEN [walked EXCEPT !.ret = FALSE, !.isExecutingUndo = FALSE]
          ELSE [SetRedo(walked, Append(walked.redoStack, transaction)) EXCEPT
                  !.ret = TRUE,
                  !.isExecutingUndo = FALSE]

\* redo() that pops and walks but does not push the transaction back onto undoStack
redoWithoutPush(s, cb, rc) ==
  IF Len(s.redoStack) = 0 \/ s.isExecutingUndo \/ s.isExecutingRedo
  THEN [s EXCEPT !.ret = FALSE]
  ELSE LET transaction == Last(s.redoStack)
           popped == SetRedo([s EXCEPT !.isExecutingRedo = TRUE], Front(s.redoStack))
           walked == ForwardWalk(popped, transaction.changes, 1, cb, rc)
       IN [walked EXCEPT !.ret = ~walked.thrown, !.isExecutingRedo = FALSE]

redo(s, cb, rc) ==
  IF Len(s.redoStack) = 0 \/ s.isExecutingUndo \/ s.isExecutingRedo
  THEN [s EXCEPT !.ret = FALSE]
  ELSE LET transaction == Last(s.redoStack)
           popped == SetRedo([s EXCEPT !.isExecutingRedo = TRUE], Front(s.redoStack))
           walked == ForwardWalk(popped, transaction.changes, 1, cb, rc)
       IN IF walked.thrown THEN [walked EXCEPT !.ret = FALSE, !.isExecutingRedo = FALSE]
          ELSE [SetUndo(walked, Append(walked.undoStack, transaction)) EXCEPT
                  !.ret = TRUE,
                  !.isExecutingRedo = FALSE]

(* ---------------------------- Persistence Bridge ------------------------ *)
\* clearHistory without `this.trackedObjects.clear()`
clearHistoryKeepsTracking(s) ==
  [NewRedo(NewUndo(s)) EXCEPT !.currentTransaction = <<>>, !.nextObjectId = 1]

clearHistory(s) ==
  [NewRedo(NewUndo(s)) EXCEPT !.currentTransaction = <<>>,
                              !.trackedObjects = [i \in {} |-> NoRef], !.nextObjectId = 1]

\* the record serializeHistory returns: the two arrays themselves, and the counter's value
serializeHistory(s) ==
  [undoStack |-> s.undoStack, redoStack |-> s.redoStack, nextObjectId |-> s.nextObjectId,
   undoLive |-> TRUE, redoLive |-> TRUE]

\* deserializeHistory without its rebuildObjectTracking() call
rebuildNothing(s) == s

\* createdObjects.forEach(object => trackedObjects.set(historyId, object)): a later object
\* with the same id replaces an earlier one
\* createdObjects.forEach(object => trackedObjects.set(historyId, object)): a later object
\* with the same id replaces an earlier one
\* rebuildObjectTracking without its trackedObjects.clear()
rebuildWithoutClear(s) ==
  LET carried == {s.objects[s.createdObjects[i]].historyId : i \in 1..Len(s.createdObjects)} \ {NoId}
      LastWith(id) == CHOOSE i \in 1..Len(s.createdObjects) :
                        /\ s.objects[s.createdObjects[i]].historyId = id
                        /\ \A j \in (i + 1)..Len(s.createdObjects) :
                             s.objects[s.createdObjects[j]].historyId # id
  IN [s EXCEPT !.trackedObjects = [id \in carried \cup DOMAIN @ |->
                                     IF id \in carried THEN s.createdObjects[LastWith(id)] ELSE @[id]]]

rebuildObjectTracking(s) ==
  LET carried == {s.objects[s.createdObjects[i]].historyId : i \in 1..Len(s.createdObjects)} \ {NoId}
      LastWith(id) == CHOOSE i \in 1..Len(s.createdObjects) :
                        /\ s.objects[s.createdObjects[i]].historyId = id
                        /\ \A j \in (i + 1)..Len(s.createdObjects) :
                             s.objects[s.createdObjects[j]].historyId # id
  IN [s EXCEPT !.trackedObjects = [id \in carried |-> s.createdObjects[LastWith(id)]]]

\* data is a record as serializeHistory returns it, or such a record with properties
\* missing: with data.undoStack and data.redoStack present the engine takes its arrays and
\* data.nextObjectId || 1, otherwise it does nothing; it returns nothing in either case
deserializeHistory(s, data) ==
  IF {"undoStack", "redoStack"} \subseteq DOMAIN data
  THEN rebuildObjectTracking([s EXCEPT !.undoStack = data.undoStack,
                                       !.redoStack = data.redoStack,
                                       !.nextObjectId =
                                          IF "nextObjectId" \notin DOMAIN data THEN 1
                                          ELSE IF data.nextObjectId = 0 THEN 1
                                          ELSE data.nextObjectId,
                                       !.saved = IF @ # <<>> /\ @[1] = data
                                                 THEN <<[data EXCEPT !.undoLive = TRUE,
                                                                     !.redoLive = TRUE]>>
                                                 ELSE @])
  ELSE s

(* ------------------------- Worldsmith call sites ------------------------ *)
\* the caller's side of a mutation: the object is made, removed or edited in the world
NewObject(s, kind, color) ==
  LET r == Alloc(s)
  IN IF r = NoRef THEN [s EXCEPT !.heapFull = TRUE]
     ELSE [s EXCEPT !.objects[r] = [FactoryObject(kind, color) EXCEPT
                                      !.position = SpawnXform.pos,
                                      !.rotation = SpawnXform.rot,
                                      !.scale = SpawnXform.scale],
                    !.createdObjects = Append(@, r)]
RemoveObject(s, r) == [s EXCEPT !.createdObjects = Splice(@, r)]
\* the caller sets the property key of the object to value
EditObject(s, r, key, value) ==
  IF key = "castShadow" THEN [s EXCEPT !.objects[r].castShadow = (value = 1)]
  ELSE IF key = "color" THEN [s EXCEPT !.objects[r].color = value]
  ELSE IF key = "visible" THEN [s EXCEPT !.objects[r].visible = (value = 1)]
  ELSE [s EXCEPT !.objects[r].name = value]

MoveObject(s, r, xf) == [s EXCEPT !.objects[r].position = xf.pos,
                                  !.objects[r].rotation = xf.rot,
                                  !.objects[r].scale = xf.scale]

\* Worldsmith.createFromDescription: make, push, position, dispatch objectCreated
createFromDescription(s, kind, color) ==
  LET obj == Alloc(s)
  IN IF obj = NoRef THEN [s EXCEPT !.heapFull = TRUE]
     ELSE onObjectCreated(NewObject(s, kind, color), obj)

\* Worldsmith.createFromDescription of src/unnamed/part_000: make, place, add, push, record
\* the creation and commit, then dispatch objectCreated
part000_createFromDescription(s, kind, color) ==
  LET obj == Alloc(s)
  IN IF obj = NoRef THEN [s EXCEPT !.heapFull = TRUE]
     ELSE onObjectCreated(commitTransaction(recordObjectCreation(NewObject(s, kind, color), obj)),
                          obj)

\* Worldsmith.deleteObject of src/unnamed/part_000: snapshot, startTransaction, record the
\* deletion, remove, deselect, commit, then dispatch objectDeleted
part000_deleteObject(s, obj) ==
  IF obj = NoRef \/ IndexOf(s.createdObjects, obj) = 0 THEN s
  ELSE LET snapshot == SnapshotOf(s, obj)
           opened == startTransaction(createObjectSnapshot(s, obj), "Delete Object")
           removed == RemoveObject(recordObjectDeletion(opened, obj, snapshot), obj)
           deselected == IF removed.selectedObject = obj
                         THEN [removed EXCEPT !.selectedObject = NoRef] ELSE removed
       IN onObjectDeleted(commitTransaction(deselected), obj, snapshot)

\* the closure a call site hands to executeGroupedAction, run on the state it is called in
actionFn(s, action) ==
  CASE action.site = "handleCreation" -> createFromDescription(s, action.kind, action.color)
    [] action.site = "clearAll" -> [s EXCEPT !.createdObjects = <<>>]
    [] action.site = "part000_handleCreation" ->
         part000_createFromDescription(s, action.kind, action.color)
    [] action.site = "deleteObject" ->
         onObjectDeleted(RemoveObject(s, action.object), action.object, action.snapshot)
    [] OTHER -> s

\* startTransaction(label); try { actionFn() } finally { commitTransaction() }
executeGroupedAction(s, label, action) ==
  commitTransaction(actionFn(startTransaction(s, label), action))

\* AIAgent.handleCreation: createFromDescription inside executeGroupedAction
handleCreation(s, kind, color) ==
  executeGroupedAction(s, "Rosie", [site |-> "handleCreation", kind |-> kind, color |-> color])

\* AIAgent.handleCreation with the Worldsmith of src/unnamed/part_000
part000_handleCreation(s, kind, color) ==
  executeGroupedAction(s, "Rosie", [site |-> "part000_handleCreation", kind |-> kind,
                                    color |-> color])

deselectObject(s) == [s EXCEPT !.selectedObject = NoRef]
selectObject(s, object) == [deselectObject(s) EXCEPT !.selectedObject = object]

\* Worldsmith.deleteObject: snapshot first, then remove and dispatch objectDeleted in a group
deleteObject(s, object) ==
  IF object = NoRef THEN s
  ELSE LET snapshot == SnapshotOf(s, object)
           grouped == executeGroupedAction(createObjectSnapshot(s, object), "Delete",
                        [site |-> "deleteObject", object |-> object, snapshot |-> snapshot])
       IN IF grouped.selectedObject = object THEN deselectObject(grouped) ELSE grouped

\* Worldsmith.clearAll once the user has confirmed: every object leaves the scene in a group
clearAll(s) ==
  IF Len(s.createdObjects) = 0 THEN s
  ELSE deselectObject(executeGroupedAction(s, "Clear All Objects", [site |-> "clearAll"]))

\* this.createdObjects.forEach(obj => recordObjectDeletion(obj, createObjectSnapshot(obj)))
RECURSIVE RecordDeletions(_, _)
RecordDeletions(s, i) ==
  IF i > Len(s.createdObjects) THEN s
  ELSE LET obj == s.createdObjects[i]
       IN RecordDeletions(recordObjectDeletion(createObjectSnapshot(s, obj), obj, SnapshotOf(s, obj)),
                          i + 1)

\* Worldsmith.clearAll of src/unnamed/part_000: startTransaction, record every deletion,
\* remove every object, deselect, commit
part000_clearAll(s) ==
  commitTransaction(deselectObject([RecordDeletions(startTransaction(s, "Clear All"), 1) EXCEPT
                                      !.createdObjects = <<>>]))

\* the mouse handlers; clicked is the object under the pointer (NoRef: none)
onMouseDown(s, clicked) ==
  IF clicked # NoRef /\ s.selectedObject # NoRef /\ clicked = s.selectedObject
  THEN startCoalescing([s EXCEPT !.isDragging = TRUE], "Drag")
  ELSE s
onMouseMove(s, newPosition) ==
  IF ~s.isDragging \/ s.selectedObject = NoRef THEN s
  ELSE [s EXCEPT !.objects[s.selectedObject].position = newPosition]
onMouseUp(s) ==
  IF s.isDragging THEN stopCoalescing([s EXCEPT !.isDragging = FALSE]) ELSE s
onMouseClick(s, clicked) ==
  IF s.isDragging THEN s
  ELSE IF clicked = NoRef THEN deselectObject(s)
  ELSE IF s.selectedObject = clicked THEN deleteObject(s, clicked)
  ELSE selectObject(s, clicked)

\* WorldData.loadWorld of a file that holds no history: the scene is emptied, then the
\* factory makes each object of the file
RECURSIVE loadObjects(_, _)
\* history data without the property f
Without(data, f) == [k \in DOMAIN data \ {f} |-> data[k]]
\* the history data a world file can hold for the engine in state s: what JSON.parse gives
\* for the record saveWorld wrote, and that record with properties missing; NoData is the
\* data without any property
NoData == [undoLive |-> FALSE, redoLive |-> FALSE]
Parsed(s) == [serializeHistory(s) EXCEPT !.undoLive = FALSE, !.redoLive = FALSE]
HistoryFiles(s) == {Parsed(s), NoData, Without(Parsed(s), "undoStack"),
                    Without(Parsed(s), "redoStack"), Without(Parsed(s), "nextObjectId")}

\* what saveWorld writes for an object: its type, transform and material colour
ObjectData(o) == [kind |-> o.kind, color |-> IF o.material THEN o.color ELSE NoColor,
                  position |-> o.position, rotation |-> o.rotation, scale |-> o.scale]
\* WorldData.saveWorld(createdObjects, historyManager.serializeHistory()): the file holds
\* the objects' data, without userData.historyId, and a JSON copy of the history record
saveWorld(s) ==
  [s EXCEPT !.worldFile =
     <<[objects |-> [i \in DOMAIN s.createdObjects |-> ObjectData(s.objects[s.createdObjects[i]])],
        historyData |-> Parsed(s)]>>]

\* the factory makes each object anew; the saved transform and colour are applied to it
loadObjects(s, data) ==
  IF data = <<>> THEN s
  ELSE LET r == Alloc(s)
           made == NewObject(s, Head(data).kind, Head(data).color)
       IN loadObjects(IF r = NoRef THEN made
                      ELSE MoveObject(made, r, [pos |-> Head(data).position,
                                                rot |-> Head(data).rotation,
                                                scale |-> Head(data).scale]),
                      Tail(data))
loadWorld(s, data) == loadObjects([s EXCEPT !.createdObjects = <<>>], data)
\* the world files a run reads
WorldFiles == { <<ObjectData(FactoryObject("shape", 1))>>,
                <<ObjectData(FactoryObject("shape", 1)), ObjectData(FactoryObject("asset", NoColor))>> }
\* Worldsmith.loadWorld: the objects are loaded, then the history data of the file is
\* handed to deserializeHistory
worldsmith_loadWorld(s, file) == deserializeHistory(loadWorld(s, file.objects), file.historyData)

(* ------------------------------ observation ----------------------------- *)
\* what is visible of the world: per live object its id, transform, visibility and colour
Seen(o) == [id |-> o.historyId, kind |-> o.kind, position |-> o.position,
            rotation |-> o.rotation, scale |-> o.scale, visible |-> o.visible, color |-> o.color]
Observable(s) == [count |-> Len(s.createdObjects),
                  seen |-> {Seen(s.objects[r]) : r \in Range(s.createdObjects)}]
LiveIds(s) == {s.objects[r].historyId : r \in Range(s.createdObjects)} \ {NoId}
Live(s) == Range(s.createdObjects)
\* the live objects that carry id
LiveWith(s, id) == {Seen(s.objects[r]) : r \in {q \in Range(s.createdObjects) : s.objects[q].historyId = id}}
OpenChanges(s) == IF s.currentTransaction = <<>> THEN <<>> ELSE s.currentTransaction[1].changes
XformOf(o) == [pos |-> o.position, rot |-> o.rotation, scale |-> o.scale]
\* the number setObjectProperty would be given to produce the object's present value
PropertyOf(o, key) == IF key = "color" THEN o.color
                      ELSE IF key = "visible" THEN (IF o.visible THEN 1 ELSE 0)
                      ELSE IF key = "castShadow" THEN (IF o.castShadow THEN 1 ELSE 0)
                      ELSE o.name
PropertyValues(key) == IF key = "color" THEN Colors ELSE {0, 1}

\* a call as an observer sees it: its name, whether a collaborator called back during it,
\* the label it was given and the edit the caller reported
NoEdit == Change("", NoId, NoSnap, "", NoXform, NoXform, 0, 0)
Op(name, label, edit, cb) == [name |-> name, reentered |-> cb # "none", label |-> label, edit |-> edit]
RecordingCalls == {"startTransaction", "recordObjectCreation", "recordObjectDeletion",
                   "recordTransformChange", "recordPropertyChange"}
CommittingCalls == {"commitTransaction", "stopCoalescing", "startCoalescing"}
\* the call commits a transaction holding changes
Pushes(op, pre) == op.name \in CommittingCalls /\ Len(OpenChanges(pre)) > 0

NoScenario == [phase |-> 0, mark |-> <<>>, edits |-> <<>>, evicted |-> {}]
\* how each object of the scene looks, in createdObjects order
Appearance(o) == [position |-> o.position, rotation |-> o.rotation, scale |-> o.scale,
                  visible |-> o.visible, color |-> o.color]
Scene(s) == [i \in DOMAIN s.createdObjects |-> Appearance(s.objects[s.createdObjects[i]])]
Mark(s, op) == [observable |-> Observable(s), scene |-> Scene(s), undoStack |-> s.undoStack,
                redoStack |-> s.redoStack, label |-> op.label, edit |-> op.edit]

\* undo, then redo at once
RoundTripObserver(op, pre, post) ==
  IF op.name = "undo" /\ post.ret
  THEN [NoScenario EXCEPT !.phase = 1, !.mark = <<Mark(pre, op)>>]
  ELSE IF op.name = "redo" /\ scenario.phase = 1 THEN [scenario EXCEPT !.phase = 2]
  ELSE NoScenario

\* undo (1), recording, a commit that pushes (2), redo (3)
BranchObserver(op, pre, post) ==
  IF op.name = "undo" /\ post.ret THEN [NoScenario EXCEPT !.phase = 1]
  ELSE IF scenario.phase = 1 /\ Pushes(op, pre) THEN [NoScenario EXCEPT !.phase = 2]
  ELSE IF scenario.phase = 1 /\ op.name \in RecordingCalls \cup CommittingCalls \cup {"undo"}
       THEN scenario
  ELSE IF scenario.phase = 2 /\ op.name = "redo"
       THEN [NoScenario EXCEPT !.phase = 3, !.mark = <<Mark(pre, op)>>]
  ELSE NoScenario

\* the timestamps of the transactions commits have evicted
EvictObserver(op, pre, post) ==
  IF Pushes(op, pre) /\ Len(pre.undoStack) + 1 > maxHistorySize
  THEN [scenario EXCEPT !.evicted = @ \cup {Head(pre.undoStack).timestamp}]
  ELSE scenario

\* startCoalescing (1), property / transform records, stopCoalescing (2), undo (3)
WindowObserver(op, pre, post) ==
  IF op.name = "startCoalescing"
  THEN [NoScenario EXCEPT !.phase = 1, !.mark = <<Mark(post, op)>>]
  ELSE IF scenario.phase = 1 /\ op.name \in {"recordTransformChange", "recordPropertyChange"}
       THEN [scenario EXCEPT !.edits = Append(@, op.edit)]
  ELSE IF scenario.phase = 1 /\ op.name = "stopCoalescing" /\ Len(scenario.edits) >= 1
       THEN [scenario EXCEPT !.phase = 2]
  ELSE IF scenario.phase = 2 /\ op.name = "undo" THEN [scenario EXCEPT !.phase = 3]
  ELSE NoScenario

\* create A and commit (1), delete A and commit (2), undo (3), undo (4), redo (5), redo (6);
\* selecting and dragging A between its creation and its deletion commit nothing
ScenarioObserver(op, pre, post) ==
  IF op.name = "handleCreation" /\ post.recorded = pre.recorded + 1
  THEN [NoScenario EXCEPT !.phase = 1, !.mark = <<Mark(post, op)>>]
  ELSE IF scenario.phase = 1 /\ op.name = "deleteObject" /\ op.edit.id = scenario.mark[1].edit.id
       THEN [NoScenario EXCEPT !.phase = 2, !.mark = <<Mark(post, op)>>]
  ELSE IF scenario.phase = 1 /\ op.name \in {"selectObject", "onMouseDown", "onMouseMove", "onMouseUp"}
       THEN scenario
  ELSE IF scenario.phase \in {2, 3} /\ op.name = "undo" THEN [scenario EXCEPT !.phase = @ + 1]
  ELSE IF scenario.phase \in {4, 5} /\ op.name = "redo" THEN [scenario EXCEPT !.phase = @ + 1]
  ELSE NoScenario

\* mouse-down on the selected object (1), mouse-moves (2), mouse-up (3), undo (4)
DragObserver(op, pre, post) ==
  IF op.name = "onMouseDown" /\ post.isDragging /\ ~pre.isDragging
  THEN [NoScenario EXCEPT !.phase = 1, !.mark = <<Mark(pre, op)>>]
  ELSE IF scenario.phase \in {1, 2} /\ op.name = "onMouseMove"
       THEN [scenario EXCEPT !.phase = 2, !.edits = <<op.edit>>]
  ELSE IF scenario.phase = 2 /\ op.name = "onMouseUp" THEN [scenario EXCEPT !.phase = 3]
  ELSE IF scenario.phase = 3 /\ op.name = "undo" THEN [scenario EXCEPT !.phase = 4]
  ELSE NoScenario

\* the ids getObjectId has minted, in the order it minted them (kept in edits)
MintObserver(op, pre, post) ==
  IF op.name \notin {"clearHistory", "deserializeHistory"} /\ post.nextObjectId > pre.nextObjectId
  THEN [scenario EXCEPT !.edits = @ \o [i \in 1..(post.nextObjectId - pre.nextObjectId) |->
                                          pre.nextObjectId + i - 1]]
  ELSE scenario

\* the transactions of the scenario, and the undo() calls that follow them
ScenarioLength == MaxCommits + 2
\* serializeHistory with nothing open (1), clearHistory (2), deserializeHistory of the record
\* kept (3), undo() calls (4 ..); mark holds the state serializeHistory was called in
PersistObserver(op, pre, post) ==
  IF scenario.phase = 0 /\ op.name = "serializeHistory" /\ pre.currentTransaction = <<>>
  THEN [NoScenario EXCEPT !.phase = 1, !.mark = <<pre>>]
  ELSE IF scenario.phase = 1 /\ op.name = "clearHistory" THEN [scenario EXCEPT !.phase = 2]
  ELSE IF scenario.phase = 2 /\ op.name = "deserializeHistory" THEN [scenario EXCEPT !.phase = 3]
  ELSE IF scenario.phase >= 3 /\ op.name = "undo" THEN [scenario EXCEPT !.phase = @ + 1]
  ELSE IF scenario.phase = 0 THEN scenario
  ELSE NoScenario

\* the stacks and the counter as they were when serializeHistory was called last (phase 1
\* once it has been called)
CaptureObserver(op, pre, post) ==
  IF op.name = "serializeHistory"
  THEN [NoScenario EXCEPT !.phase = 1,
                          !.mark = <<[undoStack |-> pre.undoStack, redoStack |-> pre.redoStack,
                                      nextObjectId |-> pre.nextObjectId]>>]
  ELSE scenario

\* the label and the edit the last call was given (mark), whether the call committed a
\* transaction holding changes (phase 2, else 1), and the timestamps of the
\* transactions holding changes that startTransaction calls have replaced (evicted)
CallObserver(op, pre, post) ==
  [NoScenario EXCEPT !.phase = IF Pushes(op, pre) THEN 2 ELSE 1,
                     !.mark = <<[label |-> op.label, edit |-> op.edit]>>,
                     !.evicted = IF op.name = "startTransaction" /\ Len(OpenChanges(pre)) > 0
                                 THEN scenario.evicted \cup {pre.currentTransaction[1].timestamp}
                                 ELSE scenario.evicted]

\* saveWorld (1, mark holds the ids live at that time), loadWorld of the file written (2)
SaveObserver(op, pre, post) ==
  IF op.name = "saveWorld"
  THEN [NoScenario EXCEPT !.phase = 1, !.mark = <<[liveIds |-> LiveIds(pre)]>>]
  ELSE IF op.name = "loadWorld" /\ scenario.phase >= 1 THEN [scenario EXCEPT !.phase = 2]
  ELSE scenario

\* an undo() or redo() that returned true while a transaction was open (1); the phase lasts
\* while that transaction stays open, through the record calls that add to it
OpenObserver(op, pre, post) ==
  IF op.name \in {"undo", "redo"} /\ post.ret /\ pre.currentTransaction # <<>>
  THEN [NoScenario EXCEPT !.phase = 1, !.mark = <<[label |-> op.name, edit |-> op.edit]>>]
  ELSE IF scenario.phase = 1 /\ op.name \in RecordingCalls \ {"startTransaction"}
       THEN scenario
  ELSE NoScenario

Observe(op, pre, post) ==
  CASE watch = "roundtrip" -> RoundTripObserver(op, pre, post)
    [] watch = "branch" -> BranchObserver(op, pre, post)
    [] watch = "evict" -> EvictObserver(op, pre, post)
    [] watch = "window" -> WindowObserver(op, pre, post)
    [] watch = "scenario" -> ScenarioObserver(op, pre, post)
    [] watch = "drag" -> DragObserver(op, pre, post)
    [] watch = "mint" -> MintObserver(op, pre, post)
    [] watch = "persist" -> PersistObserver(op, pre, post)
    [] watch = "capture" -> CaptureObserver(op, pre, post)
    [] watch = "calls" -> CallObserver(op, pre, post)
    [] watch = "save" -> SaveObserver(op, pre, post)
    [] watch = "open" -> OpenObserver(op, pre, post)
    [] OTHER -> NoScenario

\* what the engine tells its caller during a call, besides the value it returns: the toast
\* of an undo() or redo() that has completed; the Change handlers write nothing anywhere
Toasts(s, name) ==
  IF name = "undo" /\ s.ret /\ ~s.thrown /\ s.redoStack # <<>>
  THEN <<[type |-> "info", text |-> "Undone", label |-> Last(s.redoStack).label]>>
  ELSE IF name = "redo" /\ s.ret /\ ~s.thrown /\ s.undoStack # <<>>
  THEN <<[type |-> "info", text |-> "Redone", label |-> Last(s.undoStack).label]>>
  ELSE <<>>

(* ------------------------------- actions -------------------------------- *)
Bounded(s) ==
  /\ s.nextObjectId <= limit + 1
  /\ Len(s.createdObjects) <= limit
  /\ s.recorded <= limit
  /\ ~s.heapFull

Set(s) ==
  /\ undoStack' = s.undoStack /\ redoStack' = s.redoStack
  /\ currentTransaction' = s.currentTransaction
  /\ isExecutingUndo' = s.isExecutingUndo /\ isExecutingRedo' = s.isExecutingRedo
  /\ isRecording' = s.isRecording
  /\ trackedObjects' = s.trackedObjects /\ nextObjectId' = s.nextObjectId
  /\ recorded' = s.recorded /\ objects' = s.objects /\ createdObjects' = s.createdObjects
  /\ selectedObject' = s.selectedObject /\ isDragging' = s.isDragging
  /\ saved' = s.saved /\ worldFile' = s.worldFile
  /\ ret' = s.ret /\ walkLog' = s.walkLog /\ thrown' = s.thrown
  /\ heapFull' = s.heapFull

\* one call: the program goes to the state s the call leaves, the observer takes note
Step(op, s) ==
  \E after \in {s} :
    /\ Bounded(after)
    /\ \E t \in {Collect(after)} : Set(t)
    /\ lastOp' = [name |-> op.name, reentered |-> op.reentered]
    /\ limit' = limit
    /\ watch' = watch
    /\ scenario' = Observe(op, State, after)

\* a call other than undo/redo: it returns nothing and walks nothing
Call(op, s) == Step(op, [s EXCEPT !.ret = TRUE, !.walkLog = <<>>, !.thrown = FALSE])

StartTransaction(label) ==
  Call(Op("startTransaction", label, NoEdit, "none"), startTransaction(State, label))

RecordCreation(kind, color) ==
  /\ Alloc(State) # NoRef
  /\ Call(Op("recordObjectCreation", "", NoEdit, "none"),
          recordObjectCreation(NewObject(State, kind, color), Alloc(State)))

RecordDeletion(r) ==
  /\ r \in Live(State)
  /\ Call(Op("recordObjectDeletion", "", NoEdit, "none"),
          recordObjectDeletion(RemoveObject(createObjectSnapshot(State, r), r), r,
                               SnapshotOf(State, r)))

RecordTransform(r, xf) ==
  /\ r \in Live(State)
  /\ xf # XformOf(objects[r])
  /\ Call(Op("recordTransformChange", "",
             Change("xform", ObjectId(State, r), NoSnap, "", XformOf(objects[r]), xf, 0, 0), "none"),
          recordTransformChange(MoveObject(State, r, xf), r, XformOf(objects[r]), xf))

RecordProperty(r, key, value) ==
  /\ r \in Live(State)
  /\ key = "color" => objects[r].material
  /\ value # PropertyOf(objects[r], key)
  /\ Call(Op("recordPropertyChange", "",
             Change("prop", ObjectId(State, r), NoSnap, key, NoXform, NoXform,
                    PropertyOf(objects[r], key), value), "none"),
          recordPropertyChange(EditObject(State, r, key, value), r, key,
                               PropertyOf(objects[r], key), value))

CommitTransaction == Call(Op("commitTransaction", "", NoEdit, "none"), commitTransaction(State))

StartCoalescing(label) ==
  Call(Op("startCoalescing", label, NoEdit, "none"), startCoalescing(State, label))

StopCoalescing == Call(Op("stopCoalescing", "", NoEdit, "none"), stopCoalescing(State))

Undo(cb, rc) ==
  Step(Op("undo", "", NoEdit, cb), undo([State EXCEPT !.walkLog = <<>>, !.thrown = FALSE], cb, rc))

Redo(cb, rc) ==
  Step(Op("redo", "", NoEdit, cb), redo([State EXCEPT !.walkLog = <<>>, !.thrown = FALSE], cb, rc))

ClearHistory == Call(Op("clearHistory", "", NoEdit, "none"), clearHistory(State))

\* the caller keeps the record serializeHistory returns
SerializeHistory ==
  Call(Op("serializeHistory", "", NoEdit, "none"),
       [State EXCEPT !.saved = <<serializeHistory(State)>>])

\* the caller hands back the record it kept
DeserializeHistory ==
  /\ saved # <<>>
  /\ Call(Op("deserializeHistory", "", NoEdit, "none"), deserializeHistory(State, saved[1]))

\* the caller hands over the history data of a world file it read
DeserializeFile(data) ==
  Call(Op("deserializeHistory", "", NoEdit, "none"),
       deserializeHistory([State EXCEPT !.saved = <<data>>], data))

HandleCreation(kind, color) ==
  Call(Op("handleCreation", "Rosie",
          Change("create", nextObjectId, NoSnap, "", NoXform, NoXform, 0, 0), "none"),
       handleCreation(State, kind, color))

Part000HandleCreation(kind, color) ==
  Call(Op("handleCreation", "Rosie",
          Change("create", nextObjectId, NoSnap, "", NoXform, NoXform, 0, 0), "none"),
       part000_handleCreation(State, kind, color))

\* the call sites called directly, as the command handlers of Worldsmith call them
CreateFromDescription(kind, color) ==
  Call(Op("createFromDescription", "",
          Change("create", nextObjectId, NoSnap, "", NoXform, NoXform, 0, 0), "none"),
       createFromDescription(State, kind, color))

Part000CreateFromDescription(kind, color) ==
  Call(Op("part000_createFromDescription", "",
          Change("create", nextObjectId, NoSnap, "", NoXform, NoXform, 0, 0), "none"),
       part000_createFromDescription(State, kind, color))

Part000DeleteObject(r) ==
  /\ r \in Live(State)
  /\ Call(Op("part000_deleteObject", "Delete Object",
             Change("delete", ObjectId(State, r), NoSnap, "", XformOf(objects[r]), NoXform, 0, 0),
             "none"),
          part000_deleteObject(State, r))

DeleteObject(r) ==
  /\ r \in Live(State)
  /\ Call(Op("deleteObject", "Delete",
             Change("delete", ObjectId(State, r), NoSnap, "", XformOf(objects[r]), NoXform, 0, 0),
             "none"),
          deleteObject(State, r))

ClearAll ==
  Call(Op("clearAll", "Clear All Objects", NoEdit, "none"), clearAll(State))

Part000ClearAll ==
  Call(Op("part000_clearAll", "Clear All", NoEdit, "none"), part000_clearAll(State))

SelectObject(r) ==
  /\ r \in Live(State)
  /\ r # selectedObject
  /\ Call(Op("selectObject", "", NoEdit, "none"), selectObject(State, r))

OnMouseDown(clicked) ==
  /\ clicked \in Live(State)
  /\ ~isDragging
  /\ Call(Op("onMouseDown", "Drag",
             Change("drag", objects[clicked].historyId, NoSnap, "", XformOf(objects[clicked]),
                    NoXform, 0, 0), "none"),
          onMouseDown(State, clicked))

OnMouseMove(newPosition) ==
  /\ isDragging
  /\ selectedObject \in Live(State)
  /\ newPosition # objects[selectedObject].position
  /\ Call(Op("onMouseMove", "",
             Change("drag", objects[selectedObject].historyId, NoSnap, "", NoXform,
                    [XformOf(objects[selectedObject]) EXCEPT !.pos = newPosition], 0, 0), "none"),
          onMouseMove(State, newPosition))

OnMouseUp ==
  /\ isDragging
  /\ Call(Op("onMouseUp", "", NoEdit, "none"), onMouseUp(State))

LoadWorld(data) ==
  Call(Op("loadWorld", "", NoEdit, "none"), loadWorld(State, data))

SaveWorld == Call(Op("saveWorld", "", NoEdit, "none"), saveWorld(State))

\* the user picks the file saveWorld wrote
LoadSavedWorld ==
  /\ worldFile # <<>>
  /\ Call(Op("loadWorld", "", NoEdit, "none"), worldsmith_loadWorld(State, worldFile[1]))

Start(n, w) ==
  /\ undoStack = InitState.undoStack /\ redoStack = InitState.redoStack
  /\ currentTransaction = InitState.currentTransaction
  /\ isExecutingUndo = InitState.isExecutingUndo /\ isExecutingRedo = InitState.isExecutingRedo
  /\ isRecording = InitState.isRecording
  /\ trackedObjects = InitState.trackedObjects /\ nextObjectId = InitState.nextObjectId
  /\ recorded = InitState.recorded /\ objects = InitState.objects
  /\ createdObjects = InitState.createdObjects
  /\ selectedObject = InitState.selectedObject /\ isDragging = InitState.isDragging
  /\ saved = InitState.saved /\ worldFile = InitState.worldFile
  /\ ret = InitState.ret /\ walkLog = InitState.walkLog
  /\ thrown = InitState.thrown
  /\ heapFull = InitState.heapFull
  /\ lastOp = [name |-> "new", reentered |-> FALSE]
  /\ limit = n
  /\ watch = w
  /\ scenario = NoScenario

(* ---------------------------- specifications ---------------------------- *)
Init == Start(MaxRecords, "none")

\* the engine's recording API driven by callers that report each mutation they make
Next ==
  \/ \E label \in Labels : StartTransaction(label)
  \/ \E kind \in {"asset"}, color \in {NoColor} : RecordCreation(kind, color)
  \/ \E r \in Refs : RecordDeletion(r)
  \/ \E r \in Refs, xf \in Xforms : RecordTransform(r, xf)
  \/ \E r \in Refs, key \in {"visible"} : \E value \in PropertyValues(key) : RecordProperty(r, key, value)
  \/ CommitTransaction
  \/ \E label \in Labels : StartCoalescing(label)
  \/ StopCoalescing
  \/ \E cb \in {"none"}, rc \in {NoColor} : Undo(cb, rc)
  \/ \E cb \in {"none"}, rc \in {NoColor} : Redo(cb, rc)

Spec == Init /\ [][Next]_vars

\* the same callers, observed for a commit that follows undos
InitBranch == Start(MaxRecords, "branch")
SpecBranch == InitBranch /\ [][Next]_vars

\* the same callers recording one more change, so that a change can be recorded and left
\* uncommitted after a transaction of two changes has been committed
InitReplay == Start(MaxCommits, "none")
SpecReplay == InitReplay /\ [][Next]_vars

\* coalescing windows over the objects of a world loaded into the empty scene
InitWindow == Start(MaxRecords, "window")
NextWindow ==
  \/ createdObjects = <<>> /\ \E data \in WorldFiles : LoadWorld(data)
  \/ \E label \in Labels : StartCoalescing(label)
  \/ \E r \in Refs, xf \in Xforms : RecordTransform(r, xf)
  \/ \E r \in Refs, key \in Keys : \E value \in PropertyValues(key) : RecordProperty(r, key, value)
  \/ StopCoalescing
  \/ \E cb \in {"none"}, rc \in {NoColor} : Undo(cb, rc)

SpecWindow == InitWindow /\ [][NextWindow]_vars

\* walks during which a collaborator calls back into the recording API
RecordCallbacks == Callbacks \ {"undo", "redo"}
NextReentrant ==
  \/ \E kind \in {"asset"}, color \in {NoColor} : RecordCreation(kind, color)
  \/ \E r \in Refs : RecordDeletion(r)
  \/ CommitTransaction
  \/ \E cb \in RecordCallbacks, rc \in {NoColor} : Undo(cb, rc)
  \/ \E cb \in RecordCallbacks, rc \in {NoColor} : Redo(cb, rc)

SpecReentrant == Init /\ [][NextReentrant]_vars

\* walks during which a collaborator makes one of the four record calls on the object the
\* handler has just touched
SuppressedCallbacks == {"recordObjectCreation", "recordObjectDeletion",
                        "recordTransformChange", "recordPropertyChange"}
NextSuppressed ==
  \/ \E kind \in {"asset"}, color \in {NoColor} : RecordCreation(kind, color)
  \/ \E r \in Refs : RecordDeletion(r)
  \/ CommitTransaction
  \/ \E cb \in SuppressedCallbacks, rc \in {NoColor} : Undo(cb, rc)
  \/ \E cb \in SuppressedCallbacks, rc \in {NoColor} : Redo(cb, rc)

SpecSuppressed == InitReplay /\ [][NextSuppressed]_vars

\* the recording API, observed for what each call was given
InitCalls == Start(MaxRecords, "calls")
SpecCalls == InitCalls /\ [][Next]_vars

\* callers that change properties of the objects of a loaded world, under every key
NextProperty ==
  \/ createdObjects = <<>> /\ \E data \in WorldFiles : LoadWorld(data)
  \/ \E r \in Refs, key \in Keys \cup OtherKeys :
       \E value \in PropertyValues(key) : RecordProperty(r, key, value)
  \/ CommitTransaction
  \/ \E cb \in {"none"}, rc \in {NoColor} : Undo(cb, rc)
  \/ \E cb \in {"none"}, rc \in {NoColor} : Redo(cb, rc)

SpecProperty == Init /\ [][NextProperty]_vars

\* worlds that are edited, saved with their history and loaded again
InitSave == Start(MaxRecords, "save")
NextSave ==
  \/ \E kind \in {"shape"}, color \in {1} : RecordCreation(kind, color)
  \/ \E r \in Refs, xf \in Xforms : RecordTransform(r, xf)
  \/ CommitTransaction
  \/ SaveWorld
  \/ LoadSavedWorld
  \/ \E cb \in {"none"}, rc \in {1} : Undo(cb, rc)

SpecSave == InitSave /\ [][NextSave]_vars

\* the creation and deletion call sites of both Worldsmith classes, called directly
NextSites ==
  \/ \E kind \in {"shape"}, color \in {1} : CreateFromDescription(kind, color)
  \/ \E kind \in {"shape"}, color \in {1} : Part000CreateFromDescription(kind, color)
  \/ \E r \in Refs : DeleteObject(r)
  \/ \E r \in Refs : Part000DeleteObject(r)
  \/ CommitTransaction
  \/ \E cb \in {"none"}, rc \in Colors : Undo(cb, rc)

InitSites == Start(MaxCommits, "calls")
SpecSites == InitSites /\ [][NextSites]_vars

\* callers that commit what they record before they undo
InitRoundTrip == Start(MaxRecords, "roundtrip")
NextRoundTrip ==
  \/ createdObjects = <<>> /\ recorded = 0 /\ \E data \in {f \in WorldFiles : Len(f) = 1} : LoadWorld(data)
  \/ \E kind \in Kinds : \E color \in (IF kind = "shape" THEN Colors ELSE {NoColor}) :
       RecordCreation(kind, color)
  \/ \E r \in Refs : RecordDeletion(r)
  \/ \E r \in Refs, xf \in Xforms : RecordTransform(r, xf)
  \/ \E r \in Refs, key \in Keys : \E value \in PropertyValues(key) : RecordProperty(r, key, value)
  \/ CommitTransaction
  \/ currentTransaction = <<>> /\ \E cb \in {"none"}, rc \in Colors : Undo(cb, rc)
  \/ currentTransaction = <<>> /\ \E cb \in {"none"}, rc \in Colors : Redo(cb, rc)

SpecRoundTrip == InitRoundTrip /\ [][NextRoundTrip]_vars

\* histories longer than maxHistorySize, cleared, saved and loaded
InitCommits == Start(MaxCommits, "none")
NextCommits ==
  \/ \E kind \in {"asset"}, color \in {NoColor} : HandleCreation(kind, color)
  \/ \E cb \in {"none"}, rc \in {NoColor} : Undo(cb, rc)
  \/ \E cb \in {"none"}, rc \in {NoColor} : Redo(cb, rc)
  \/ ClearHistory
  \/ SerializeHistory
  \/ DeserializeHistory

SpecCommits == InitCommits /\ [][NextCommits]_vars

\* the same histories, observed for the ids minted
InitMint == Start(MaxCommits, "mint")
SpecMint == InitMint /\ [][NextCommits]_vars

\* the same histories, observed for what serializeHistory captured
InitCapture == Start(MaxRecords, "capture")
SpecCapture == InitCapture /\ [][NextCommits]_vars

\* the same histories, loaded from world files whose history data may lack properties
NextFiles ==
  \/ \E kind \in {"asset"}, color \in {NoColor} : HandleCreation(kind, color)
  \/ \E cb \in {"none"}, rc \in {NoColor} : Undo(cb, rc)
  \/ \E cb \in {"none"}, rc \in {NoColor} : Redo(cb, rc)
  \/ ClearHistory
  \/ \E data \in HistoryFiles(State) \cup HistoryFiles(InitState) : DeserializeFile(data)

SpecFiles == Init /\ [][NextFiles]_vars

\* histories longer than maxHistorySize, observed for the transactions evicted
InitEvict == Start(MaxCommits, "evict")
NextEvict ==
  \/ \E kind \in {"asset"}, color \in {NoColor} : RecordCreation(kind, color)
  \/ \E r \in Refs, xf \in Xforms : RecordTransform(r, xf)
  \/ CommitTransaction
  \/ \E cb \in {"none"}, rc \in {NoColor} : Undo(cb, rc)
  \/ \E cb \in {"none"}, rc \in {NoColor} : Redo(cb, rc)

SpecEvict == InitEvict /\ [][NextEvict]_vars

\* the Worldsmith user interface: commands, clicks, drags, undo and redo buttons
NextApp ==
  \/ \E kind \in {"shape"}, color \in {1} : HandleCreation(kind, color)
  \/ \E r \in Refs : SelectObject(r)
  \/ \E r \in Refs : DeleteObject(r)
  \/ \E clicked \in Refs : OnMouseDown(clicked)
  \/ \E newPosition \in {0, 1} : OnMouseMove(newPosition)
  \/ OnMouseUp
  \/ \E cb \in {"none"}, rc \in Colors : Undo(cb, rc)
  \/ \E cb \in {"none"}, rc \in Colors : Redo(cb, rc)

InitScenario == Start(MaxRecords, "scenario")
SpecScenario == InitScenario /\ [][NextApp]_vars
InitDrag == Start(MaxRecords, "drag")
SpecDrag == InitDrag /\ [][NextApp]_vars

\* walks during which a collaborator calls undo() or redo()
WalkCallbacks == {"none", "undo", "redo"}
NextRefused ==
  \/ \E kind \in {"asset"}, color \in {NoColor} : RecordCreation(kind, color)
  \/ \E r \in Refs : RecordDeletion(r)
  \/ CommitTransaction
  \/ \E cb \in WalkCallbacks, rc \in {NoColor} : Undo(cb, rc)
  \/ \E cb \in WalkCallbacks, rc \in {NoColor} : Redo(cb, rc)

SpecRefused == Init /\ [][NextRefused]_vars

\* callers that record every kind of change and undo with changes left uncommitted, so
\* that a walk meets ids the tracked-object map no longer holds
NextSkip ==
  \/ \E kind \in {"asset"}, color \in {NoColor} : RecordCreation(kind, color)
  \/ \E r \in Refs : RecordDeletion(r)
  \/ \E r \in Refs, xf \in Xforms : RecordTransform(r, xf)
  \/ \E r \in Refs, key \in {"visible"} : \E value \in PropertyValues(key) : RecordProperty(r, key, value)
  \/ CommitTransaction
  \/ \E cb \in {"none"}, rc \in {NoColor} : Undo(cb, rc)
  \/ \E cb \in {"none"}, rc \in {NoColor} : Redo(cb, rc)

SpecSkip == InitReplay /\ [][NextSkip]_vars

\* walks during which the Object Factory makes an object, returns nothing or throws
NextFactory ==
  \/ \E kind \in {"asset"}, color \in {NoColor} : RecordCreation(kind, color)
  \/ \E r \in Refs : RecordDeletion(r)
  \/ \E r \in Refs, xf \in Xforms : RecordTransform(r, xf)
  \/ CommitTransaction
  \/ \E cb \in {"none"}, rc \in {NoColor, Nothing, Throws} : Undo(cb, rc)
  \/ \E cb \in {"none"}, rc \in {NoColor, Nothing, Throws} : Redo(cb, rc)

SpecFactory == Init /\ [][NextFactory]_vars

\* the persistence scenario: transactions of one Create, Delete or Transform each are
\* committed, the history is serialized, cleared and deserialized, then undone
InitPersist == Start(ScenarioLength, "persist")
NextPersist ==
  \/ scenario.phase = 0 /\ currentTransaction = <<>>
       /\ \E kind \in {"shape"}, color \in {1} : RecordCreation(kind, color)
  \/ scenario.phase = 0 /\ currentTransaction = <<>> /\ \E r \in Refs : RecordDeletion(r)
  \/ scenario.phase = 0 /\ currentTransaction = <<>>
       /\ \E r \in Refs, xf \in Xforms : RecordTransform(r, xf)
  \/ currentTransaction # <<>> /\ CommitTransaction
  \/ scenario.phase = 0 /\ currentTransaction = <<>> /\ undoStack # <<>> /\ SerializeHistory
  \/ scenario.phase = 1 /\ ClearHistory
  \/ scenario.phase = 2 /\ DeserializeHistory
  \/ scenario.phase \in 3..(2 + ScenarioLength)
       /\ \E cb \in {"none"}, rc \in {NoColor} : Undo(cb, rc)

SpecPersist == InitPersist /\ [][NextPersist]_vars

\* the call sites that run a closure through executeGroupedAction, with both Worldsmith
\* classes of the repository (src/worldsmith.js, src/unnamed/part_000)
NextGrouped ==
  \/ \E kind \in {"shape"}, color \in {1} : HandleCreation(kind, color)
  \/ \E kind \in {"shape"}, color \in {1} : Part000HandleCreation(kind, color)
  \/ \E r \in Refs : DeleteObject(r)
  \/ ClearAll
  \/ \E cb \in {"none"}, rc \in Colors : Undo(cb, rc)
  \/ \E cb \in {"none"}, rc \in Colors : Redo(cb, rc)

InitGrouped == Start(MaxCommits, "none")
SpecGrouped == InitGrouped /\ [][NextGrouped]_vars

(* ------------------------------ properties ------------------------------ *)
History == <<undoStack, redoStack, currentTransaction>>
World == <<objects, createdObjects, trackedObjects, nextObjectId, selectedObject, isDragging>>
WalkOf(handler, changes) == [i \in 1..Len(changes) |-> [handler |-> handler, change |-> changes[i]]]
Reversed(q) == [i \in 1..Len(q) |-> q[Len(q) + 1 - i]]
\* the transaction is [Create id, Transform id]
CreateThenTransform(t) ==
  /\ Len(t.changes) = 2
  /\ t.changes[1].type = "create" /\ t.changes[2].type = "xform"
  /\ t.changes[1].id = t.changes[2].id

\* C1: a record call or a startTransaction made while an undo() or redo() walk is in
\* progress, directly or through an objectCreated / objectDeleted notification, appends no
\* Change and opens or replaces no transaction; after the walk the two stacks differ from what
\* they were before it only by the one transaction popped from one and pushed on the other.
C1_ReentrancyGuard ==
  [][(lastOp'.name \in {"undo", "redo"} /\ lastOp'.reentered /\ ret') =>
       /\ recorded' = recorded
       /\ currentTransaction' = currentTransaction
       /\ lastOp'.name = "undo" =>
            /\ undoStack # <<>>
            /\ undoStack' = Front(undoStack)
            /\ redoStack' = Append(redoStack, Last(undoStack))
       /\ lastOp'.name = "redo" =>
            /\ redoStack # <<>>
            /\ redoStack' = Front(redoStack)
            /\ undoStack' = Append(undoStack, Last(redoStack))]_vars
\* a walk during which a collaborator called back has run while a transaction holding a
\* change was open
C1_Witness ==
  /\ lastOp.name = "undo" /\ lastOp.reentered /\ ret
  /\ Len(OpenChanges(State)) > 0
  /\ redoStack # <<>>

C3_BranchDiscard ==
  [][/\ (lastOp'.name \in CommittingCalls /\ Len(OpenChanges(State)) > 0) => redoStack' = <<>>
     /\ (lastOp'.name = "redo" /\ scenario.phase = 2) =>
          /\ ~ret'
          /\ History' = History
          /\ World' = World]_vars
\* undo, then a commit that pushed, then a redo that failed
C3_Witness == watch = "branch" /\ scenario.phase = 3 /\ lastOp.name = "redo" /\ ~ret

\* C4: for a transaction with changes c1..cn, undo() invokes the reverse handlers in the
\* order cn, ..., c1 and redo() invokes the forward handlers in the order c1, ..., cn; for a
\* transaction [Create id, Transform id] undo() leaves no live object for id and a following
\* redo() leaves id live with the transform's next values.
C4_ReplayOrder ==
  [][/\ (lastOp'.name = "undo" /\ ret') =>
          /\ undoStack # <<>>
          /\ walkLog' = Reversed(WalkOf("reverse", Last(undoStack).changes))
          /\ CreateThenTransform(Last(undoStack)) =>
               Last(undoStack).changes[1].id \notin LiveIds(State')
     /\ (lastOp'.name = "redo" /\ ret') =>
          /\ redoStack # <<>>
          /\ walkLog' = WalkOf("apply", Last(redoStack).changes)
          /\ (lastOp.name = "undo" /\ ret /\ CreateThenTransform(Last(redoStack))) =>
               /\ LiveWith(State', Last(redoStack).changes[1].id) # {}
               /\ \A o \in LiveWith(State', Last(redoStack).changes[1].id) :
                    [pos |-> o.position, rot |-> o.rotation, scale |-> o.scale]
                      = Last(redoStack).changes[2].next]_vars
\* C5: in every reachable state, after any sequence of record, commit, undo, redo,
\* clearHistory and deserializeHistory calls, undoStack.length <= maxHistorySize.
C5_BoundedHistory == Len(undoStack) <= maxHistorySize

\* C6: when a commit would make undoStack longer than maxHistorySize, exactly the oldest
\* transaction is removed; the others keep their contents and order with the new transaction on
\* top, and no number of later undo() calls ever reverses the evicted transaction.
C6_Eviction ==
  [][/\ (lastOp'.name = "commitTransaction" /\ Len(OpenChanges(State)) > 0
           /\ Len(undoStack) + 1 > maxHistorySize) =>
          undoStack' = Append(Tail(undoStack), currentTransaction[1])
     /\ (lastOp'.name = "undo" /\ ret') =>
          /\ undoStack # <<>>
          /\ Last(undoStack).timestamp \notin scenario.evicted
          /\ \A i \in 1..Len(walkLog') : walkLog'[i].change \in Range(Last(undoStack).changes)
     /\ \A t \in Range(undoStack') \cup Range(redoStack') :
          t.timestamp \notin scenario'.evicted]_vars
\* a transaction has been evicted and undo() has been called until it failed
C6_Witness ==
  /\ watch = "evict" /\ scenario.evicted # {}
  /\ lastOp.name = "undo" /\ ~ret
  /\ undoStack = <<>> /\ Len(redoStack) = maxHistorySize

\* C7: commitTransaction() pushes the open transaction on top of undoStack, with its
\* Changes in the order they were recorded, if and only if it holds at least one Change; with
\* no open transaction or an empty one both stacks are left as they were; in every case no
\* transaction is open after it returns, and no transaction without Changes is ever on a stack.
C7_CommitContract ==
  [][/\ lastOp'.name \in {"commitTransaction", "stopCoalescing"} =>
          /\ currentTransaction' = <<>>
          /\ IF Len(OpenChanges(State)) > 0
             THEN /\ undoStack' # <<>>
                  /\ Last(undoStack') = currentTransaction[1]
                  /\ Front(undoStack') = IF Len(undoStack) < maxHistorySize
                                         THEN undoStack ELSE Tail(undoStack)
             ELSE undoStack' = undoStack /\ redoStack' = redoStack
     /\ (lastOp'.name \in RecordingCalls \ {"startTransaction"} /\ recorded' = recorded + 1) =>
          /\ Front(OpenChanges(State')) = OpenChanges(State)
          /\ Last(OpenChanges(State')).type =
               CASE lastOp'.name = "recordObjectCreation" -> "create"
                 [] lastOp'.name = "recordObjectDeletion" -> "delete"
                 [] lastOp'.name = "recordTransformChange" -> "xform"
                 [] OTHER -> "prop"
     /\ \A t \in Range(undoStack') \cup Range(redoStack') : Len(t.changes) > 0]_vars
\* a commit has pushed the transaction that holds the two changes recorded last
C7_Witness ==
  /\ lastOp.name = "commitTransaction"
  /\ currentTransaction = <<>>
  /\ undoStack # <<>> /\ Len(Last(undoStack).changes) = 2
  /\ recorded = Last(undoStack).timestamp + 2

C9_CreateDeleteUndo ==
  (watch = "scenario" /\ scenario.phase >= 3) =>
     LET A == scenario.mark[1].edit.id
         held == scenario.mark[1].undoStack
     IN /\ ret
        /\ scenario.phase = 3 =>
             /\ Cardinality(LiveWith(State, A)) = 1
             /\ \A o \in LiveWith(State, A) :
                  [pos |-> o.position, rot |-> o.rotation, scale |-> o.scale]
                    = scenario.mark[1].edit.prev
        /\ scenario.phase = 4 => A \notin LiveIds(State)
        /\ scenario.phase = 6 =>
             /\ A \notin LiveIds(State)
             /\ redoStack = <<>>
             /\ undoStack = held
             /\ Len(held) >= 2
             /\ held[Len(held) - 1].changes[1].type = "create"
             /\ held[Len(held) - 1].changes[1].id = A
             /\ held[Len(held)].changes[1].type = "delete"
             /\ held[Len(held)].changes[1].id = A
\* the scenario has been played to its end, A having been dragged before it was deleted
C9_Witness ==
  /\ watch = "scenario" /\ scenario.phase = 6 /\ ret
  /\ scenario.mark[1].edit.prev # SpawnXform

\* C10: dragging the selected object B (mouse-down on B starts coalescing "Drag B", mouse-move
\* position updates, mouse-up stops coalescing) makes undoStack exactly one entry longer, and
\* one undo() puts B back at its pre-drag position.
C10_DragScenario ==
  (watch = "drag" /\ scenario.phase \in {3, 4}) =>
     /\ scenario.phase = 3 => Len(undoStack) = Len(scenario.mark[1].undoStack) + 1
     /\ scenario.phase = 4 =>
          /\ ret
          /\ \E o \in LiveWith(State, scenario.mark[1].edit.id) :
               o.position = scenario.mark[1].edit.prev.pos

\* the state a walk is in when a handler runs: the flag of the walk is set
MidWalk(s, walk) == [s EXCEPT !.isExecutingUndo = (walk = "undo"),
                              !.isExecutingRedo = (walk = "redo")]
\* the fields of the state s as the variables hold them after a call
Becomes(s) ==
  /\ undoStack' = s.undoStack /\ redoStack' = s.redoStack
  /\ currentTransaction' = s.currentTransaction
  /\ trackedObjects' = s.trackedObjects /\ nextObjectId' = s.nextObjectId
  /\ objects' = s.objects /\ createdObjects' = s.createdObjects
  /\ isExecutingUndo' = s.isExecutingUndo /\ isExecutingRedo' = s.isExecutingRedo

\* C11: undo() returns failure and leaves both stacks, the open transaction, the world and
\* the tracked-object map unchanged when undoStack is empty or when an undo or redo walk is in
\* progress; redo() does the same when redoStack is empty or a walk is in progress.  A call
\* made during a walk is refused in the state the walk is in, and the walk ends as it would
\* have ended without the call.
C11_RefusedUndoRedo ==
  [][/\ (lastOp'.name = "undo" /\ undoStack = <<>>) =>
          ~ret' /\ History' = History /\ World' = World
     /\ (lastOp'.name = "redo" /\ redoStack = <<>>) =>
          ~ret' /\ History' = History /\ World' = World
     /\ \A walk \in {"undo", "redo"} :
          /\ undo(MidWalk(State, walk), "none", NoColor) = [MidWalk(State, walk) EXCEPT !.ret = FALSE]
          /\ redo(MidWalk(State, walk), "none", NoColor) = [MidWalk(State, walk) EXCEPT !.ret = FALSE]
     /\ (lastOp'.name = "undo" /\ lastOp'.reentered) =>
          Becomes(Collect(undo(State, "none", NoColor)))
     /\ (lastOp'.name = "redo" /\ lastOp'.reentered) =>
          Becomes(Collect(redo(State, "none", NoColor)))]_vars
\* a walk during which a collaborator called undo() or redo() has run with transactions left
\* on both stacks
C11_Witness ==
  /\ lastOp.name \in {"undo", "redo"} /\ lastOp.reentered /\ ret
  /\ undoStack # <<>> /\ redoStack # <<>>

\* the calls that run executeGroupedAction and the label they give it
GroupedCalls == {"handleCreation", "deleteObject", "clearAll"}
GroupLabel(name) == CASE name = "handleCreation" -> "Rosie"
                      [] name = "deleteObject" -> "Delete"
                      [] OTHER -> "Clear All Objects"

\* C12: executeGroupedAction(label, action), called with no walk in progress, where action
\* records k >= 1 Changes through the recording API (the application's creation and deletion
\* call sites included), adds exactly one transaction to undoStack, labelled label and
\* holding all k Changes in order, so that one undo() reverses the whole action; with k = 0
\* it adds none.
C12_GroupedAction ==
  [][lastOp'.name \in GroupedCalls =>
       LET k == recorded' - recorded
       IN /\ k = 0 => undoStack' = undoStack
          /\ k >= 1 =>
               /\ undoStack' # <<>>
               /\ Front(undoStack') = IF Len(undoStack) < maxHistorySize
                                      THEN undoStack ELSE Tail(undoStack)
               /\ Last(undoStack').label = GroupLabel(lastOp'.name)
               /\ Len(Last(undoStack').changes) = k
               /\ Last(undoStack').timestamp = recorded
               /\ \A rc \in Colors :
                    Observable(Collect(undo(State', "none", rc))) = Observable(State)]_vars

\* every Change the engine holds: on the stacks and in the open transaction
HistoryChanges(s) ==
  UNION {Range(t.changes) : t \in Range(s.undoStack) \cup Range(s.redoStack)
                                   \cup Range(s.currentTransaction)}
\* the walk logged reconstructed an object for id (undo of a Delete, redo of a Create) and
\* did not remove it again afterwards
Reconstructed(log, id) ==
  \E i \in DOMAIN log :
    /\ log[i].change.id = id
    /\ \/ log[i].handler = "reverse" /\ log[i].change.type = "delete"
       \/ log[i].handler = "apply" /\ log[i].change.type = "create"
    /\ \A j \in (i + 1)..Len(log) :
         ~ /\ log[j].change.id = id
           /\ \/ log[j].handler = "reverse" /\ log[j].change.type = "create"
              \/ log[j].handler = "apply" /\ log[j].change.type = "delete"
\* applying or reversing the Transform or Property change x in s sets the object r
AppliedTo(s, x, r) ==
  /\ x.type = "xform" =>
       /\ XformOf(applyTransform(s, x).objects[r]) = x.next
       /\ XformOf(reverseTransform(s, x).objects[r]) = x.prev
  /\ (x.type = "prop" /\ (x.key = "color" => s.objects[r].material)) =>
       /\ PropertyOf(applyProperty(s, x).objects[r], x.key) = x.pnext
       /\ PropertyOf(reverseProperty(s, x).objects[r], x.key) = x.pprev

\* C13: an object reconstructed by undo of a Delete or redo of a Create carries the id stored
\* in the change's snapshot and the tracked-object map maps that id to the new instance, so
\* that every Transform or Property change in history that references the id is applied to
\* the reconstructed object.
C13_StableIdentity ==
  [][/\ \A c \in HistoryChanges(State), rc \in Colors :
          (c.type \in {"create", "delete"} /\ Alloc(State) # NoRef) =>
            LET after == IF c.type = "delete" THEN reverseChange(State, c, rc)
                         ELSE applyChange(State, c, rc)
                instance == Alloc(State)
            IN /\ after.objects[instance].historyId = c.snapshot.id
               /\ Tracked(after, c.snapshot.id) = instance
               /\ instance \in Live(after)
               /\ \A x \in HistoryChanges(State) : x.id = c.snapshot.id => AppliedTo(after, x, instance)
     /\ (lastOp'.name \in {"undo", "redo"} /\ ret') =>
          \A id \in 1..nextObjectId :
            Reconstructed(walkLog', id) =>
              LET instance == Tracked(State', id)
              IN /\ instance \in Live(State')
                 /\ objects'[instance].historyId = id
                 /\ \A x \in HistoryChanges(State') : x.id = id => AppliedTo(State', x, instance)]_vars
\* an undo or redo has reconstructed an object whose id a Transform or Property change still
\* on a stack references
C13_Witness ==
  /\ lastOp.name \in {"undo", "redo"} /\ ret
  /\ \E id \in 1..nextObjectId :
       /\ Reconstructed(walkLog, id)
       /\ \E x \in HistoryChanges(State) : x.id = id /\ x.type \in {"xform", "prop"}

\* the ids the Changes of history reference
HistoryIds(s) == {x.id : x \in HistoryChanges(s)}

\* C14: within one session, across any sequence of operations including clearHistory() and
\* deserializeHistory(), getObjectId never mints for a new object an id that a different
\* logical object carries already (a live object, or an id history references), and the ids
\* minted are strictly increasing.
C14_IdUniqueness ==
  [][\A i \in (Len(scenario.edits) + 1)..Len(scenario'.edits) :
       /\ scenario'.edits[i] \notin LiveIds(State) \cup HistoryIds(State)
       /\ \A j \in 1..(i - 1) : scenario'.edits[j] < scenario'.edits[i]]_vars

\* C15: in every reachable state, after any sequence of creations, deletions, commits, undo()
\* and redo() calls, each id is represented by at most one live object: the tracked-object
\* map holds one object per id, and no two objects of createdObjects carry the same id.
C15_OneLivePerId ==
  /\ \A id \in DOMAIN trackedObjects : objects[trackedObjects[id]].historyId = id
  /\ \A i, j \in DOMAIN createdObjects :
       (i # j /\ objects[createdObjects[i]].historyId # NoId) =>
         objects[createdObjects[i]].historyId # objects[createdObjects[j]].historyId

\* the handler looks the change's id up in the tracked-object map
Resolving(handler, c) ==
  \/ handler = "reverse" /\ c.type \in {"create", "xform", "prop"}
  \/ handler = "apply" /\ c.type \in {"delete", "xform", "prop"}
Missing(s, handler, c) == Resolving(handler, c) /\ Tracked(s, c.id) = NoRef
Handle(s, handler, c, rc) ==
  IF handler = "reverse" THEN reverseChange(s, c, rc) ELSE applyChange(s, c, rc)
\* the changes of a transaction in the order the walk processes them
Order(handler, changes) == IF handler = "reverse" THEN Reversed(changes) ELSE changes
\* the state in which the walk that starts in s makes its k-th handler call
Before(s, handler, changes, k, rc) ==
  IF handler = "reverse"
  THEN ReverseWalk(s, SubSeq(changes, Len(changes) - k + 2, Len(changes)), k - 1, "none", rc)
  ELSE ForwardWalk(s, SubSeq(changes, 1, k - 1), 1, "none", rc)
\* the state of an undo() or redo() made now, once the transaction is popped
Popped(walk) ==
  IF walk = "undo"
  THEN SetUndo([State EXCEPT !.isExecutingUndo = TRUE, !.walkLog = <<>>, !.thrown = FALSE],
               Front(undoStack))
  ELSE SetRedo([State EXCEPT !.isExecutingRedo = TRUE, !.walkLog = <<>>, !.thrown = FALSE],
               Front(redoStack))
\* every handler call of the walk that misses leaves the state as it found it
SkipsIn(s, handler, changes) ==
  \A rc \in Colors \cup {NoColor}, k \in 1..Len(changes) :
    LET c == Order(handler, changes)[k]
        before == Before(s, handler, changes, k, rc)
    IN Missing(before, handler, c) => Handle(before, handler, c, rc) = Logged(before, handler, c)
MissIn(s, handler, changes) ==
  \E rc \in Colors \cup {NoColor}, k \in 1..Len(changes) :
    Missing(Before(s, handler, changes, k, rc), handler, Order(handler, changes)[k])

\* C16: when the id of a Create, Delete, Transform or Property change does not resolve to a
\* tracked object during undo() or redo(), that change's handler changes nothing, the
\* remaining Changes of the transaction are still processed, the transaction is still moved
\* to the opposite stack, and the call returns success.
C16_MissingIsSkip ==
  [][/\ \A c \in HistoryChanges(State), handler \in {"reverse", "apply"} :
          Missing(State, handler, c) =>
            Handle(State, handler, c, NoColor) = Logged(State, handler, c)
     /\ (lastOp'.name = "undo" /\ undoStack # <<>>) =>
          LET t == Last(undoStack)
          IN /\ SkipsIn(Popped("undo"), "reverse", t.changes)
             /\ MissIn(Popped("undo"), "reverse", t.changes) =>
                  /\ ret' /\ ~thrown'
                  /\ walkLog' = WalkOf("reverse", Reversed(t.changes))
                  /\ undoStack' = Front(undoStack) /\ redoStack' = Append(redoStack, t)
     /\ (lastOp'.name = "redo" /\ redoStack # <<>>) =>
          LET t == Last(redoStack)
          IN /\ SkipsIn(Popped("redo"), "apply", t.changes)
             /\ MissIn(Popped("redo"), "apply", t.changes) =>
                  /\ ret' /\ ~thrown'
                  /\ walkLog' = WalkOf("apply", t.changes)
                  /\ redoStack' = Front(redoStack) /\ undoStack' = Append(undoStack, t)]_vars
\* an undo or redo has walked a transaction of two Transform or Property changes whose ids
\* the tracked-object map does not hold
C16_Witness ==
  /\ lastOp.name \in {"undo", "redo"} /\ ret
  /\ Len(walkLog) >= 2
  /\ \A i \in DOMAIN walkLog :
       /\ walkLog[i].change.type \in {"xform", "prop"}
       /\ Tracked(State, walkLog[i].change.id) = NoRef

\* the call made now is an undo() or redo() during which the factory does rc
WalkWith(walk, rc) ==
  /\ lastOp'.name = walk
  /\ IF walk = "undo"
     THEN Becomes(Collect(undo([State EXCEPT !.walkLog = <<>>, !.thrown = FALSE], "none", rc)))
     ELSE Becomes(Collect(redo([State EXCEPT !.walkLog = <<>>, !.thrown = FALSE], "none", rc)))
HandlerOf(walk) == IF walk = "undo" THEN "reverse" ELSE "apply"
StackOf(walk) == IF walk = "undo" THEN undoStack ELSE redoStack
\* a handler call of the walk fails: an exception leaves the handler
FailsIn(s, handler, changes, rc) ==
  \E k \in 1..Len(changes) :
    LET before == Before(s, handler, changes, k, rc)
    IN ~before.thrown /\ Handle(before, handler, Order(handler, changes)[k], rc).thrown
\* the walk has processed every change of t and moved t to the opposite stack
Completed(walk, t) ==
  /\ walkLog' = WalkOf(HandlerOf(walk), Order(HandlerOf(walk), t.changes))
  /\ IF walk = "undo"
     THEN undoStack' = Front(undoStack) /\ redoStack' = Append(redoStack, t)
     ELSE redoStack' = Front(redoStack) /\ undoStack' = Append(undoStack, t)

\* C17: if the handler of one Change fails during undo() or redo(), the failure does not
\* escape the call; the remaining Changes of the transaction are still processed and the
\* transaction ends on the opposite stack, so that undo/redo never leaves a transaction on
\* neither stack.
C17_NoAbortedWalk ==
  [][\A walk \in {"undo", "redo"}, rc \in FactoryOutcomes :
       (/\ StackOf(walk) # <<>>
        /\ WalkWith(walk, rc)
        /\ FailsIn(Popped(walk), HandlerOf(walk), Last(StackOf(walk)).changes, rc)) =>
         /\ ~thrown'
         /\ Completed(walk, Last(StackOf(walk)))]_vars

\* the handler asks the Object Factory for an object
Reconstructing(handler, c) ==
  \/ handler = "reverse" /\ c.type = "delete"
  \/ handler = "apply" /\ c.type = "create"

\* C18: when the Object Factory produces no object for a snapshot during undo of a Delete or
\* redo of a Create, no object is added to the world, no id is registered for it, the
\* remaining Changes are still processed, and the transaction is still moved to the opposite
\* stack.
C18_ReconstructionFailure ==
  [][\A walk \in {"undo", "redo"} :
       LET changes == Last(StackOf(walk)).changes
           handler == HandlerOf(walk)
       IN (/\ StackOf(walk) # <<>>
           /\ WalkWith(walk, Nothing)
           /\ \E c \in Range(changes) : Reconstructing(handler, c)) =>
            /\ \A k \in 1..Len(changes) :
                 LET c == Order(handler, changes)[k]
                     before == Before(Popped(walk), handler, changes, k, Nothing)
                     after == Handle(before, handler, c, Nothing)
                 IN Reconstructing(handler, c) =>
                      /\ after.createdObjects = before.createdObjects
                      /\ after.objects = before.objects
                      /\ after.trackedObjects = before.trackedObjects
                      /\ after = Logged(before, handler, c)
            /\ ~thrown' /\ ret'
            /\ Completed(walk, Last(StackOf(walk)))]_vars
\* an undo or redo has walked a transaction of two changes or more in which the factory
\* produced no object: the id of the reconstruction is neither tracked nor live
C18_Witness ==
  /\ lastOp.name \in {"undo", "redo"} /\ ret /\ ~thrown
  /\ Len(walkLog) >= 2
  /\ \E id \in 1..nextObjectId :
       /\ Reconstructed(walkLog, id)
       /\ Tracked(State, id) = NoRef
       /\ id \notin LiveIds(State)

\* the state n undo() calls made one after the other from s leave
RECURSIVE UndoTimes(_, _)
UndoTimes(s, n) ==
  IF n = 0 THEN s
  ELSE CHOOSE last \in {UndoTimes(after, n - 1) :
                          after \in {Collect(undone) : undone \in {undo(s, "none", NoColor)}}} : TRUE

C20_StructuralRoundTrip ==
  [][(lastOp'.name = "deserializeHistory" /\ scenario.phase = 1) =>
       /\ undoStack' = scenario.mark[1].undoStack
       /\ redoStack' = scenario.mark[1].redoStack
       /\ nextObjectId' = scenario.mark[1].nextObjectId]_vars

\* the world's live objects, in the order of createdObjects
LiveObjects(s) == [i \in DOMAIN s.createdObjects |-> s.objects[s.createdObjects[i]]]
\* the pairs (embedded id, object) of the live objects that carry an id
IdPairs(s) == {<<s.objects[r].historyId, r>> :
                 r \in {q \in Range(s.createdObjects) : s.objects[q].historyId # NoId}}
TrackedPairs(s) == {<<id, s.trackedObjects[id]>> : id \in DOMAIN s.trackedObjects}

\* C21: deserializeHistory never adds, removes or modifies a world object; after it returns
\* the tracked-object map is exactly the set of pairs (embedded id -> object) of the objects
\* in the world's live set that carry an id, with no entry left over from before the call.
C21_DeserializeRelinks ==
  [][lastOp'.name = "deserializeHistory" =>
       /\ LiveObjects(State') = LiveObjects(State)
       /\ TrackedPairs(State') = IdPairs(State')]_vars

\* the data passes structural validation: undoStack, redoStack and a numeric nextObjectId
\* are present (the entries of the stacks of HistoryFiles are well-formed)
Valid(data) == {"undoStack", "redoStack", "nextObjectId"} \subseteq DOMAIN data
\* the tracked-object map, by the objects it holds
TrackedObjectsOf(s) == [id \in DOMAIN s.trackedObjects |-> s.objects[s.trackedObjects[id]]]

\* C22: deserializeHistory called with data that fails structural validation (absent data, a
\* missing undoStack or redoStack, a missing or non-numeric nextObjectId) leaves undoStack,
\* redoStack, the id counter and the tracked-object map exactly as they were.
C22_NoPartialApply ==
  [][(lastOp'.name = "deserializeHistory" /\ ~Valid(saved'[1])) =>
       /\ undoStack' = undoStack /\ redoStack' = redoStack
       /\ nextObjectId' = nextObjectId
       /\ TrackedObjectsOf(State') = TrackedObjectsOf(State)]_vars

\* what the caller of a call gets back: the value returned and whether it threw
Outcome == <<ret, thrown>>
\* the engine took nothing from the data handed to it
Rejected(data) == ~({"undoStack", "redoStack"} \subseteq DOMAIN data)

\* C23: when deserializeHistory rejects its input, the caller receives an error outcome
\* distinguishable from that of a successful load.
C23_FailureReported ==
  [][(lastOp'.name = "deserializeHistory" /\ Rejected(saved'[1])) =>
       \A loaded \in {deserializeHistory([State EXCEPT !.ret = TRUE, !.thrown = FALSE],
                                         Parsed(State))} :
         Outcome' # <<loaded.ret, loaded.thrown>>]_vars

\* C24: a recordObjectCreation, recordObjectDeletion, recordTransformChange or
\* recordPropertyChange call made during a walk leaves the whole engine state unchanged (both
\* stacks, the open transaction, the id counter, the tracked-object map and the object's id):
\* the walk ends in the state in which it ends without the call.
C24_SuppressedRecording ==
  [][(lastOp'.name \in {"undo", "redo"} /\ lastOp'.reentered /\ ret') =>
       \A plain \in {Collect(IF lastOp'.name = "undo" THEN undo(State, "none", NoColor)
                             ELSE redo(State, "none", NoColor))} :
         /\ undoStack' = plain.undoStack /\ redoStack' = plain.redoStack
         /\ currentTransaction' = plain.currentTransaction
         /\ nextObjectId' = plain.nextObjectId
         /\ TrackedObjectsOf(State') = TrackedObjectsOf(plain)
         /\ LiveObjects(State') = LiveObjects(plain)]_vars

\* C25: startTransaction(label) called while a transaction with recorded Changes is open, and
\* no walk in progress, discards that transaction: both stacks are unchanged by the call, the
\* open transaction afterwards has the new label and zero Changes, and the discarded
\* transaction never appears on undoStack or redoStack.
C25_AbandonAndReplace ==
  [][/\ (lastOp'.name = "startTransaction" /\ Len(OpenChanges(State)) > 0 /\ ~Walking(State)) =>
          /\ undoStack' = undoStack /\ redoStack' = redoStack
          /\ Len(currentTransaction') = 1
          /\ currentTransaction'[1].label = scenario'.mark[1].label
          /\ currentTransaction'[1].changes = <<>>
     /\ \A t \in Range(undoStack') \cup Range(redoStack') :
          t.timestamp \notin scenario'.evicted]_vars
\* a transaction holding a change was replaced by startTransaction, under another label, and
\* a transaction has been committed since
C25_Witness ==
  /\ lastOp.name = "commitTransaction"
  /\ scenario.evicted # {}
  /\ undoStack # <<>>
  /\ \E t \in Range(undoStack) : \A k \in scenario.evicted : t.timestamp > k

\* the calls that record a Change, and the type of the Change each records
RecordCalls == {"recordObjectCreation", "recordObjectDeletion", "recordTransformChange",
                "recordPropertyChange"}
TypeOf(name) == CASE name = "recordObjectCreation" -> "create"
                  [] name = "recordObjectDeletion" -> "delete"
                  [] name = "recordTransformChange" -> "xform"
                  [] OTHER -> "prop"
\* the open transaction was opened by addChange
AutoOpened(s) == s.currentTransaction # <<>> /\ s.currentTransaction[1].label = UnknownAction

\* C26: a record call made when no transaction is open, recording is enabled and no walk is
\* in progress opens a transaction labelled "Unknown Action" whose only Change is the one
\* recorded; both stacks are left unchanged by it and by every later call that neither
\* commits nor walks, until the transaction is committed.
C26_AutoOpen ==
  [][/\ (lastOp'.name \in RecordCalls /\ currentTransaction = <<>> /\ isRecording
           /\ ~Walking(State)) =>
          /\ undoStack' = undoStack /\ redoStack' = redoStack
          /\ AutoOpened(State')
          /\ Len(OpenChanges(State')) = 1
          /\ OpenChanges(State')[1].type = TypeOf(lastOp'.name)
          /\ lastOp'.name \in {"recordTransformChange", "recordPropertyChange"} =>
               OpenChanges(State')[1] = scenario'.mark[1].edit
          /\ lastOp'.name = "recordObjectCreation" =>
               /\ OpenChanges(State')[1].snapshot = SnapshotOf(State', Last(createdObjects'))
               /\ OpenChanges(State')[1].id = objects'[Last(createdObjects')].historyId
          /\ lastOp'.name = "recordObjectDeletion" =>
               /\ OpenChanges(State')[1].id = OpenChanges(State')[1].snapshot.id
               /\ Len(createdObjects') = Len(createdObjects) - 1
               /\ \E r \in Live(State) :
                    /\ OpenChanges(State')[1].snapshot = SnapshotOf(State, r)
                    /\ LiveObjects(State') =
                         LiveObjects(RemoveObject(createObjectSnapshot(State, r), r))
     /\ (AutoOpened(State) /\ lastOp'.name \notin CommittingCalls \cup {"undo", "redo"}) =>
          undoStack' = undoStack /\ redoStack' = redoStack
     /\ (AutoOpened(State) /\ lastOp'.name \in CommittingCalls /\ Len(OpenChanges(State)) > 0) =>
          Last(undoStack') = currentTransaction[1]]_vars

\* a record call made with nothing open has opened the "Unknown Action" transaction, with
\* a transaction committed earlier on undoStack
C26_Witness ==
  /\ lastOp.name \in RecordCalls
  /\ AutoOpened(State)
  /\ Len(OpenChanges(State)) = 1
  /\ undoStack # <<>>

\* C27: startCoalescing(label) called while a transaction with at least one Change is open
\* pushes that transaction, unaltered, on undoStack (clearing redoStack, the oldest entry
\* leaving a full undoStack) and opens a new transaction under label that holds no Change.
C27_CoalescingCommitsFirst ==
  [][(lastOp'.name = "startCoalescing" /\ Len(OpenChanges(State)) > 0) =>
       /\ undoStack' = IF Len(undoStack) + 1 > maxHistorySize
                       THEN Append(Tail(undoStack), currentTransaction[1])
                       ELSE Append(undoStack, currentTransaction[1])
       /\ Last(undoStack') = currentTransaction[1]
       /\ redoStack' = <<>>
       /\ Len(currentTransaction') = 1
       /\ currentTransaction'[1].label = scenario'.mark[1].label
       /\ currentTransaction'[1].changes = <<>>]_vars
\* startCoalescing has committed an open transaction holding a change on top of an earlier
\* one and opened an empty one
C27_Witness ==
  /\ lastOp.name = "startCoalescing"
  /\ scenario.phase = 2
  /\ Len(undoStack) = 2
  /\ OpenChanges(State) = <<>> /\ currentTransaction # <<>>

\* the transactions that have been committed and are on a stack
Committed(s) == Range(s.undoStack) \cup Range(s.redoStack)

\* C28: once a transaction has been pushed on undoStack, its label and its sequence of
\* Changes are never altered by any later record, startTransaction, commit, coalescing, undo
\* or redo call; undo and redo only move it between the stacks.
C28_CommittedImmutable ==
  [][/\ \A t \in Committed(State) : \A u \in Committed(State') :
          t.timestamp = u.timestamp => (u.label = t.label /\ u.changes = t.changes)
     /\ (lastOp'.name = "undo" /\ ret') =>
          /\ undoStack' = Front(undoStack)
          /\ redoStack' = Append(redoStack, Last(undoStack))
     /\ (lastOp'.name = "redo" /\ ret') =>
          /\ redoStack' = Front(redoStack)
          /\ undoStack' = Append(undoStack, Last(redoStack))
     /\ lastOp'.name \notin {"undo", "redo"} \cup CommittingCalls =>
          undoStack' = undoStack /\ redoStack' = redoStack]_vars
\* a transaction lies committed on undoStack and a record call has since put a change in
\* the open transaction
C28_Witness ==
  /\ undoStack # <<>>
  /\ Len(OpenChanges(State)) > 0
  /\ lastOp.name \in RecordCalls
  /\ \A t \in Range(undoStack) : t.timestamp < currentTransaction[1].timestamp

\* the change of index i is the only one of transaction t that touches its object's
\* property, and t neither creates nor deletes the object
SoleEdit(t, i) ==
  /\ t.changes[i].type = "prop"
  /\ \A j \in DOMAIN t.changes :
       /\ t.changes[j].type \in {"create", "delete"} => t.changes[j].id # t.changes[i].id
       /\ (j # i /\ t.changes[j].type = "prop" /\ t.changes[j].id = t.changes[i].id) =>
            t.changes[j].key # t.changes[i].key
\* the walk over t has left the property of the change of index i at value
LeftAt(t, i, value) ==
  /\ Tracked(State', t.changes[i].id) \in Live(State')
  /\ PropertyOf(objects'[Tracked(State', t.changes[i].id)], t.changes[i].key) = value

\* C29: for every recorded Property{id, key, prev, next} whose id resolves to a live object,
\* undo sets the object's property key to prev and redo sets it to next, whatever the key is.
C29_PropertyReversible ==
  [][/\ (lastOp'.name = "undo" /\ ret') =>
          \A t \in {Last(undoStack)} : \A i \in DOMAIN t.changes :
            (SoleEdit(t, i) /\ Tracked(State, t.changes[i].id) \in Live(State)) =>
               LeftAt(t, i, t.changes[i].pprev)
     /\ (lastOp'.name = "redo" /\ ret') =>
          \A t \in {Last(redoStack)} : \A i \in DOMAIN t.changes :
            (SoleEdit(t, i) /\ Tracked(State, t.changes[i].id) \in Live(State)) =>
               LeftAt(t, i, t.changes[i].pnext)]_vars

\* the ids the committed history of s references
StackIds(s) == UNION {{t.changes[i].id : i \in DOMAIN t.changes} : t \in Committed(s)}

\* C30: after the world is saved with the serialized history and loaded again (loadWorld
\* followed by deserializeHistory), every id that the history references and whose object
\* was live at save time resolves to a live object, so that undo() of the last committed
\* Transform on such an object takes effect on the loaded world.
C30_SaveLoadPersistence ==
  [][/\ (lastOp'.name = "loadWorld" /\ scenario'.phase = 2) =>
          \A id \in StackIds(State') \cap scenario'.mark[1].liveIds :
            Tracked(State', id) \in Live(State')
     /\ (lastOp.name = "loadWorld" /\ scenario.phase = 2 /\ lastOp'.name = "undo"
           /\ undoStack # <<>>) =>
          \A t \in {Last(undoStack)} :
            (/\ Len(t.changes) = 1 /\ t.changes[1].type = "xform"
             /\ t.changes[1].id \in scenario.mark[1].liveIds) =>
               /\ ret'
               /\ Tracked(State', t.changes[1].id) \in Live(State')
               /\ XformOf(objects'[Tracked(State', t.changes[1].id)]) = t.changes[1].prev]_vars

\* the positions, in walk order, of the changes that the walk made now skips
Skipped(walk) ==
  LET changes == Last(StackOf(walk)).changes
      handler == HandlerOf(walk)
  IN {k \in 1..Len(changes) :
        Missing(Before(Popped(walk), handler, changes, k, NoColor), handler,
                Order(handler, changes)[k])}
\* the entries of the messages that report a problem
Diagnostics(messages) == {i \in DOMAIN messages : messages[i].type # "info"}

\* C31: every Change that undo() or redo() skips (unresolved id) adds an entry to a
\* diagnostic channel that the caller can read after the call.
C31_SkipsObservable ==
  [][\A walk \in {"undo", "redo"} :
       (lastOp'.name = walk /\ StackOf(walk) # <<>>) =>
          Cardinality(Diagnostics(Toasts(State', walk))) = Cardinality(Skipped(walk))]_vars

\* the call sites that create or delete one object, and the type of Change each reports
SiteCalls == {"createFromDescription", "part000_createFromDescription", "deleteObject",
              "part000_deleteObject"}
SiteType(name) == IF name \in {"deleteObject", "part000_deleteObject"} THEN "delete" ELSE "create"

\* C32: each object creation or deletion performed through the application's call sites
\* (createFromDescription, deleteObject), which call the recording API and emit the
\* objectCreated / objectDeleted notifications, puts exactly one Create or Delete Change for
\* that object in history and leaves no transaction open once the call site has returned.
C32_SingleRecording ==
  [][(lastOp'.name \in SiteCalls /\ currentTransaction = <<>>) =>
       /\ recorded' = recorded + 1
       /\ currentTransaction' = <<>>
       /\ undoStack' # <<>>
       /\ Len(Last(undoStack').changes) = 1
       /\ Last(undoStack').changes[1].type = SiteType(lastOp'.name)
       /\ Last(undoStack').changes[1].id = scenario'.mark[1].edit.id]_vars

(* ------------------------ transaction conservation ---------------------- *)
\* a call of undo() or redo() that returned true
Succeeded(walk) == lastOp'.name = walk /\ ret' /\ ~thrown'

\* C33: a successful undo() removes exactly the top transaction of undoStack and makes it
\* the top of redoStack, a successful redo() moves the top of redoStack back onto
\* undoStack; every other entry of both stacks stays where it is, so the sum of the two
\* lengths is the same before and after the call
C33_TransactionConservation ==
  [][/\ Succeeded("undo") =>
          /\ undoStack # <<>>
          /\ undoStack' = Front(undoStack)
          /\ redoStack' = Append(redoStack, Last(undoStack))
     /\ Succeeded("redo") =>
          /\ redoStack # <<>>
          /\ redoStack' = Front(redoStack)
          /\ undoStack' = Append(undoStack, Last(redoStack))
     /\ (Succeeded("undo") \/ Succeeded("redo")) =>
          Len(undoStack') + Len(redoStack') = Len(undoStack) + Len(redoStack)]_vars

\* a redo has returned true, moving one transaction and leaving another on redoStack
C33_Witness ==
  /\ lastOp.name = "redo" /\ ret
  /\ undoStack # <<>>
  /\ redoStack # <<>>

(* ------------------- undo / redo beside an open transaction ------------- *)
\* the recording API, observed for walks made while a transaction is open
InitOpen == Start(MaxRecords, "open")
SpecOpen == InitOpen /\ [][Next]_vars
\* the application's handlers, observed the same way
SpecOpenDrag == InitOpen /\ [][NextApp]_vars

\* the call moved the top transaction of one stack onto the other
Moved(from, to) == from # <<>> /\ from' = Front(from) /\ to' = Append(to, Last(from))

\* undo() and redo() called while a transaction is open leave it as it is and move a
\* transaction between the stacks if there is one to move
OpenUntouched ==
  /\ (lastOp'.name = "undo" /\ currentTransaction # <<>>) =>
       /\ currentTransaction' = currentTransaction
       /\ undoStack # <<>> => (ret' /\ Moved(undoStack, redoStack))
  /\ (lastOp'.name = "redo" /\ currentTransaction # <<>>) =>
       /\ currentTransaction' = currentTransaction
       /\ redoStack # <<>> => (ret' /\ Moved(redoStack, undoStack))

\* the call commits the transaction beside which an undo() or redo() has run
CommitsWindow ==
  /\ scenario.phase = 1
  /\ currentTransaction # <<>>
  /\ lastOp'.name \in {"commitTransaction", "stopCoalescing", "onMouseUp"}

BothSet(s) == s.isExecutingUndo /\ s.isExecutingRedo

\* C35: isExecutingUndo and isExecutingRedo are never both set, neither by a call made
\* between walks nor by an undo() or redo() made while a walk runs, and both are clear
\* after every call, a call whose Change handler threw included; the undo(), redo() or
\* record call that follows such a call is carried out: it pops the stack it walks, or
\* adds its Change to the open transaction
C35_FlagsReset ==
  [][/\ ~isExecutingUndo' /\ ~isExecutingRedo'
     /\ \A walk \in {"undo", "redo"} :
          /\ ~BothSet(undo(MidWalk(State, walk), "none", NoColor))
          /\ ~BothSet(redo(MidWalk(State, walk), "none", NoColor))
     /\ (thrown /\ lastOp'.name = "undo" /\ undoStack # <<>>) =>
          /\ ret' \/ thrown'
          /\ Len(undoStack') = Len(undoStack) - 1
     /\ (thrown /\ lastOp'.name = "redo" /\ redoStack # <<>>) =>
          /\ ret' \/ thrown'
          /\ Len(redoStack') = Len(redoStack) - 1
     /\ (thrown /\ lastOp'.name \in RecordCalls) =>
          /\ Len(OpenChanges(State')) = Len(OpenChanges(State)) + 1
          /\ Last(OpenChanges(State')).type = TypeOf(lastOp'.name)]_vars

\* an undo() has ended with an exception of a Change handler, with both flags clear and a
\* transaction left on undoStack for the next undo()
C35_Witness ==
  /\ lastOp.name = "undo" /\ thrown
  /\ ~isExecutingUndo /\ ~isExecutingRedo
  /\ undoStack # <<>>

(* ---------------------------- undo terminates --------------------------- *)
\* the state n undo() calls made one after the other from s leave, the Object Factory
\* answering rc to each of them
RECURSIVE UndoRun(_, _, _)
UndoRun(s, n, rc) ==
  IF n = 0 THEN s
  ELSE CHOOSE last \in {UndoRun(after, n - 1, rc) :
                          after \in {Collect(undone) :
                                       undone \in {undo([s EXCEPT !.thrown = FALSE], "none", rc)}}} : TRUE

\* C36: from a state with n transactions on undoStack, each of n consecutive undo() calls
\* returns true and takes one entry off undoStack (none adds one), and the call after them
\* returns false
C36_UndoTerminates ==
  \A rc \in FactoryOutcomes :
    \A n \in {Len(undoStack)} :
      /\ \A k \in 1..n :
           \A u \in {UndoRun(State, k, rc)} :
             u.ret /\ ~u.thrown /\ Len(u.undoStack) = n - k
      /\ ~UndoRun(State, n + 1, rc).ret

(* -------------------------------- clear all ----------------------------- *)
\* worlds filled through the creation call sites and emptied by clearAll, with both
\* Worldsmith classes of the repository
NextClear ==
  \/ \E kind \in {"shape"}, color \in {1} : HandleCreation(kind, color)
  \/ ClearAll
  \/ Part000ClearAll
  \/ \E cb \in {"none"}, rc \in Colors : Undo(cb, rc)
  \/ \E cb \in {"none"}, rc \in Colors : Redo(cb, rc)

\* two creations and the two deletions that clearing them records
InitClear == Start(MaxCommits + 1, "none")
SpecClear == InitClear /\ [][NextClear]_vars

ClearCalls == {"clearAll", "part000_clearAll"}

\* C37: clearAll in a world of m >= 1 objects puts exactly one transaction on undoStack,
\* whose changes are m Deletes, one for each object, and one undo() after it makes the m
\* objects live again under the ids they had
C37_ClearAllOneStep ==
  [][(lastOp'.name \in ClearCalls /\ Len(createdObjects) >= 1) =>
       /\ createdObjects' = <<>>
       /\ recorded' = recorded + Len(createdObjects)
       /\ undoStack' # <<>>
       /\ undoStack' = IF Len(undoStack) + 1 > maxHistorySize
                       THEN Append(Tail(undoStack), Last(undoStack'))
                       ELSE Append(undoStack, Last(undoStack'))
       /\ Len(Last(undoStack').changes) = Len(createdObjects)
       /\ \A i \in DOMAIN Last(undoStack').changes : Last(undoStack').changes[i].type = "delete"
       /\ {Last(undoStack').changes[i].id : i \in DOMAIN Last(undoStack').changes} = LiveIds(State)
       /\ \A rc \in Colors :
            \A undone \in {undo(State', "none", rc)} :
              /\ undone.ret
              /\ Len(undone.createdObjects) = Len(createdObjects)
              /\ LiveIds(undone) = LiveIds(State)]_vars

(* ------------------------------ clearHistory ---------------------------- *)
\* the recording API with clearHistory() among its calls
NextReset ==
  \/ Next
  \/ ClearHistory

SpecReset == Init /\ [][NextReset]_vars

\* the objects of the scene in createdObjects order, with the ids they carry
SceneObjects(s) == [i \in DOMAIN s.createdObjects |-> s.objects[s.createdObjects[i]]]

\* C38: after clearHistory() both stacks are empty, no transaction is open, the
\* tracked-object map is empty and nextObjectId is 1 again, so that undo() and redo() return
\* false; the live objects of the world, the ids they carry and the selection are as they
\* were, and so are the engine's three flags
C38_ClearHistoryResets ==
  [][lastOp'.name = "clearHistory" =>
       /\ undoStack' = <<>> /\ redoStack' = <<>>
       /\ currentTransaction' = <<>>
       /\ DOMAIN trackedObjects' = {}
       /\ nextObjectId' = InitState.nextObjectId
       /\ ~undo(State', "none", NoColor).ret
       /\ ~redo(State', "none", NoColor).ret
       /\ undo(State', "none", NoColor) = [State' EXCEPT !.ret = FALSE]
       /\ redo(State', "none", NoColor) = [State' EXCEPT !.ret = FALSE]
       /\ SceneObjects(State') = SceneObjects(State)
       /\ LiveIds(State') = LiveIds(State)
       /\ isRecording' = isRecording
       /\ isExecutingUndo' = isExecutingUndo /\ isExecutingRedo' = isExecutingRedo]_vars

\* clearHistory() has run in a world whose live object carries an id, after two changes
\* had been recorded
C38_Witness ==
  /\ lastOp.name = "clearHistory"
  /\ LiveIds(State) # {}
  /\ recorded >= 2
  /\ undoStack = <<>> /\ DOMAIN trackedObjects = {}

====
